---------------------------- MODULE Spec2Model ----------------------------
(***************************************************************************)
(* A model of mine, the script catalog CLI: the configuration codec        *)
(* (config.go), the path resolver (paths.go) and the command handlers and  *)
(* argument parser (main.go).                                              *)
(*                                                                         *)
(* A Go string is modelled as a sequence of one-character strings, so that *)
(* quoting, parsing, trimming and path cleaning are computed character by  *)
(* character as the code computes them.  A Go map is a function whose      *)
(* domain is the set of its keys.                                          *)
(***************************************************************************)
EXTENDS Integers, Sequences, FiniteSets, TLC

VARIABLES
    file,      \* content of the config file on disk, or NoFile
    dirs,      \* directories that exist on disk
    home,      \* value of $HOME ("" when the home directory is unknown)
    cfg,       \* the configData of the running invocation, or NoCfg
    pc,        \* position of the running invocation in main()
    res,       \* what the last handler was given (with the model cfg0 and the
               \* file file0 of that moment) and what it returned, printed
               \* and launched
    runs,      \* number of invocations started so far
    input,     \* input of the function applied (command line, file, name)
    output     \* its result

vars == <<file, dirs, home, cfg, pc, res, runs, input, output>>

(***************************************************************************)
(* Characters and strings                                                  *)
(***************************************************************************)

\* The characters of the model in ascending byte order (sort.Strings
\* compares strings byte by byte).  "BEL", "BS" and "VT" stand for the
\* control characters \a, \b and \v.
AsciiOrder ==
    <<"BEL", "BS", "\t", "\n", "VT", "\f", "\r", " ", "\"", "#", "$", "'", "-", ".", "/", ";", "=",
      "A", "B", "C", "D", "E", "F", "G", "H", "I", "J", "K", "L", "M",
      "N", "O", "P", "Q", "R", "S", "T", "U", "V", "W", "X", "Y", "Z",
      "[", "\\", "]", "_",
      "a", "b", "c", "d", "e", "f", "g", "h", "i", "j", "k", "l", "m",
      "n", "o", "p", "q", "r", "s", "t", "u", "v", "w", "x", "y", "z",
      "{", "}", "~">>

Ord(c) == CHOOSE i \in 1..Len(AsciiOrder) : AsciiOrder[i] = c

UpperLetters ==
    <<"A", "B", "C", "D", "E", "F", "G", "H", "I", "J", "K", "L", "M",
      "N", "O", "P", "Q", "R", "S", "T", "U", "V", "W", "X", "Y", "Z">>

LowerLetters ==
    <<"a", "b", "c", "d", "e", "f", "g", "h", "i", "j", "k", "l", "m",
      "n", "o", "p", "q", "r", "s", "t", "u", "v", "w", "x", "y", "z">>

Range(s) == {s[i] : i \in 1..Len(s)}

\* unicode.IsSpace on the characters of the model.
IsSpace(c) == c \in {" ", "\t", "\n", "VT", "\f", "\r"}

ToLowerChar(c) ==
    IF c \in Range(UpperLetters)
    THEN LowerLetters[CHOOSE i \in 1..Len(UpperLetters) : UpperLetters[i] = c]
    ELSE c

\* strings.ToLower
ToLower(s) == [i \in 1..Len(s) |-> ToLowerChar(s[i])]

\* s[from:] with a 1-based index.
Tail2(s, from) == SubSeq(s, from, Len(s))

\* strings.HasPrefix
HasPrefix(s, p) == Len(p) <= Len(s) /\ SubSeq(s, 1, Len(p)) = p

\* strings.HasSuffix
HasSuffix(s, p) ==
    Len(p) <= Len(s) /\ SubSeq(s, Len(s) - Len(p) + 1, Len(s)) = p

\* strings.TrimPrefix
TrimPrefix(s, p) == IF HasPrefix(s, p) THEN Tail2(s, Len(p) + 1) ELSE s

\* strings.TrimSuffix
TrimSuffix(s, p) == IF HasSuffix(s, p) THEN SubSeq(s, 1, Len(s) - Len(p)) ELSE s

\* strings.Index, 1-based; 0 when p does not occur in s.
Index(s, p) ==
    LET hits == {i \in 1..(Len(s) - Len(p) + 1) : SubSeq(s, i, i + Len(p) - 1) = p}
    IN  IF hits = {} THEN 0 ELSE CHOOSE i \in hits : \A j \in hits : i <= j

\* strings.Contains
Contains(s, p) == Index(s, p) # 0

\* strings.ReplaceAll for a non-empty old: non-overlapping occurrences,
\* left to right; the replacement is not scanned again.
RECURSIVE ReplaceAll(_, _, _)
ReplaceAt(s, old, new, i) ==
    IF i = 0 THEN s
    ELSE SubSeq(s, 1, i - 1) \o new
         \o ReplaceAll(Tail2(s, i + Len(old)), old, new)

ReplaceAll(s, old, new) == ReplaceAt(s, old, new, Index(s, old))

\* strings.TrimSpace
TrimSpace(s) ==
    LET keep == {i \in 1..Len(s) : ~IsSpace(s[i])}
    IN  IF keep = {} THEN <<>>
        ELSE SubSeq(s, CHOOSE i \in keep : \A j \in keep : i <= j,
                       CHOOSE i \in keep : \A j \in keep : i >= j)

\* Byte-wise lexicographic order of two strings (a < b).
StrLess(a, b) ==
    \E i \in 1..(Len(a) + 1) :
        /\ i <= Len(b)
        /\ SubSeq(a, 1, i - 1) = SubSeq(b, 1, i - 1)
        /\ (i = Len(a) + 1 \/ Ord(a[i]) < Ord(b[i]))

\* sort.Strings applied to the keys of a map: the ascending sequence.
RECURSIVE SortStrings(_)
SortFrom(S, m) == <<m>> \o SortStrings(S \ {m})

SortStrings(S) ==
    IF S = {} THEN <<>>
    ELSE SortFrom(S, CHOOSE k \in S : \A j \in S : j = k \/ StrLess(k, j))

EmptyMap == [k \in {} |-> <<>>]


(***************************************************************************)
(* config.go: the configuration codec                                      *)
(***************************************************************************)

appName == <<"m","i","n","e">>
defaultConfigName == <<"c","o","n","f","i","g",".","t","o","m","l">>
tomlSuffix == <<".","t","o","m","l">>
commandsFolderKey == <<"c","o","m","m","a","n","d","s","_","f","o","l","d","e","r">>
commandsDirName == <<"c","o","m","m","a","n","d","s">>
placeholder == <<"{","{","p","a","t","h","}","}">>
pathKey == <<"p","a","t","h">>
descriptionKey == <<"d","e","s","c","r","i","p","t","i","o","n">>
executorsName == <<"e","x","e","c","u","t","o","r","s">>
commandsPrefix == <<"c","o","m","m","a","n","d","s",".">>

\* The zero value of commandDefinition.
ZeroCommand == [Path |-> <<>>, Description |-> <<>>]

defaultExecutors ==
    (<<"j","s">> :> <<"n","o","d","e"," ","{","{","p","a","t","h","}","}">>)
    @@ (<<"p","y">> :> <<"p","y","t","h","o","n"," ","{","{","p","a","t","h","}","}">>)
    @@ (<<"s","h">> :> <<"s","h"," ","{","{","p","a","t","h","}","}">>)

\* A merge in which the defaults replace the keys of the file.
mergeDefaultsOverriding(existing) ==
    [k \in DOMAIN existing \cup DOMAIN defaultExecutors |->
        IF k \in DOMAIN defaultExecutors THEN defaultExecutors[k] ELSE existing[k]]

\* Defaults fill only the keys that are missing.
mergeDefaultExecutors(existing) ==
    [k \in DOMAIN existing \cup DOMAIN defaultExecutors |->
        IF k \in DOMAIN existing THEN existing[k] ELSE defaultExecutors[k]]

\* strconv.Quote on the characters of the model: a double-quoted Go string
\* literal with backslash escapes.
QuoteChar(c) ==
    CASE c = "\"" -> <<"\\", "\"">>
      [] c = "\\" -> <<"\\", "\\">>
      [] c = "\n" -> <<"\\", "n">>
      [] c = "\t" -> <<"\\", "t">>
      [] c = "\r" -> <<"\\", "r">>
      [] c = "BEL" -> <<"\\", "a">>
      [] c = "BS" -> <<"\\", "b">>
      [] c = "\f" -> <<"\\", "f">>
      [] c = "VT" -> <<"\\", "v">>
      [] OTHER    -> <<c>>

RECURSIVE QuoteBody(_, _)
QuoteBody(s, i) ==
    IF i > Len(s) THEN <<>> ELSE QuoteChar(s[i]) \o QuoteBody(s, i + 1)

Quote(s) == <<"\"">> \o QuoteBody(s, 1) \o <<"\"">>

\* The backslash escapes strconv.UnquoteChar knows, on the characters of the
\* model (hex, unicode and octal escapes need digits, which the model's
\* alphabet does not hold).  "" stands for a syntax error.
UnescapeChar(e, q) ==
    CASE e = "n"  -> "\n"
      [] e = "t"  -> "\t"
      [] e = "r"  -> "\r"
      [] e = "a"  -> "BEL"
      [] e = "b"  -> "BS"
      [] e = "f"  -> "\f"
      [] e = "v"  -> "VT"
      [] e = "\\" -> "\\"
      [] e = "\"" -> IF q = "\"" THEN "\"" ELSE ""
      [] e = "'"  -> IF q = "'" THEN "'" ELSE ""
      [] OTHER    -> ""

\* The loop of strconv.Unquote over s from position i, inside quotes q, with
\* acc unquoted so far.
RECURSIVE UnquoteFrom(_, _, _, _)
UnquoteFrom(s, i, q, acc) ==
    IF i > Len(s) THEN [ok |-> FALSE, val |-> <<>>]
    ELSE IF s[i] = q
    THEN [ok |-> (i = Len(s)), val |-> IF i = Len(s) THEN acc ELSE <<>>]
    ELSE IF s[i] = "\n" THEN [ok |-> FALSE, val |-> <<>>]
    ELSE IF q = "'" /\ Len(acc) > 0 THEN [ok |-> FALSE, val |-> <<>>]
    ELSE IF s[i] = "\\"
    THEN IF i + 1 > Len(s) \/ UnescapeChar(s[i + 1], q) = ""
         THEN [ok |-> FALSE, val |-> <<>>]
         ELSE UnquoteFrom(s, i + 2, q, Append(acc, UnescapeChar(s[i + 1], q)))
    ELSE UnquoteFrom(s, i + 1, q, Append(acc, s[i]))

\* strconv.Unquote for a text that starts with a single or double quote.
Unquote(s) ==
    IF Len(s) < 2 THEN [ok |-> FALSE, val |-> <<>>]
    ELSE UnquoteFrom(s, 2, s[1], <<>>)

parseTomlValue(in) ==
    IF in = <<>> THEN [ok |-> FALSE, val |-> <<>>]
    ELSE IF in[1] = "\"" \/ in[1] = "'" THEN Unquote(in)
    ELSE [ok |-> TRUE, val |-> in]

\* bufio.ScanLines: the lines of text from position i on; a line ends at a
\* newline, loses one trailing carriage return, and the text after the last
\* newline is a line when it is not empty.
DropCR(l) == IF Len(l) > 0 /\ l[Len(l)] = "\r" THEN SubSeq(l, 1, Len(l) - 1) ELSE l

RECURSIVE ScanLines(_, _)
ScanLines(text, i) ==
    IF i > Len(text) THEN <<>>
    ELSE LET nl == {j \in i..Len(text) : text[j] = "\n"}
         IN  IF nl = {} THEN <<DropCR(Tail2(text, i))>>
             ELSE LET j == CHOOSE x \in nl : \A y \in nl : x <= y
                  IN  <<DropCR(SubSeq(text, i, j - 1))>> \o ScanLines(text, j + 1)

\* The state of loadConfig's scan before any line.
ScanStart ==
    [err |-> "", Scalars |-> EmptyMap, Commands |-> EmptyMap,
     Executors |-> EmptyMap, currentCommand |-> <<>>, inExecutors |-> FALSE]

Fail(st, e) == [st EXCEPT !.err = e]

\* A "[commands.name]" line.
ScanCommandSection(st, name) ==
    IF name = <<>> THEN Fail(st, "invalid commands section")
    ELSE [st EXCEPT !.currentCommand = name, !.inExecutors = FALSE,
                    !.Commands = IF name \in DOMAIN st.Commands
                                 THEN st.Commands
                                 ELSE (name :> ZeroCommand) @@ st.Commands]

\* A section line whose name between the brackets is section.
ScanSectionName(st, section) ==
    IF section = executorsName
    THEN [st EXCEPT !.currentCommand = <<>>, !.inExecutors = TRUE]
    ELSE IF HasPrefix(section, commandsPrefix)
    THEN ScanCommandSection(st, TrimPrefix(section, commandsPrefix))
    ELSE Fail(st, "unknown section")

\* A "[name]" line.
ScanSection(st, line) ==
    ScanSectionName(st, TrimSuffix(TrimPrefix(line, <<"[">>), <<"]">>))

\* A loadConfig that keeps the executor keys as they are written.
ScanStoreKeepingCase(st, key, value) ==
    IF ~value.ok THEN Fail(st, "invalid value")
    ELSE IF st.inExecutors
    THEN [st EXCEPT !.Executors = (key :> value.val) @@ st.Executors]
    ELSE IF st.currentCommand # <<>>
    THEN IF key = pathKey
         THEN [st EXCEPT !.Commands[st.currentCommand].Path = value.val]
         ELSE IF key = descriptionKey
         THEN [st EXCEPT !.Commands[st.currentCommand].Description = value.val]
         ELSE Fail(st, "unknown key")
    ELSE [st EXCEPT !.Scalars = (key :> value.val) @@ st.Scalars]

\* The assignment of a parsed value to a trimmed, non-empty key.
ScanStore(st, key, value) ==
    IF ~value.ok THEN Fail(st, "invalid value")
    ELSE IF st.inExecutors
    THEN [st EXCEPT !.Executors = (ToLower(key) :> value.val) @@ st.Executors]
    ELSE IF st.currentCommand # <<>>
    THEN IF key = pathKey
         THEN [st EXCEPT !.Commands[st.currentCommand].Path = value.val]
         ELSE IF key = descriptionKey
         THEN [st EXCEPT !.Commands[st.currentCommand].Description = value.val]
         ELSE Fail(st, "unknown key")
    ELSE [st EXCEPT !.Scalars = (key :> value.val) @@ st.Scalars]

\* A line split at its first "=" (position eq, 0 when it has none).
ScanSplit(st, line, eq, key) ==
    IF eq = 0 THEN Fail(st, "invalid config line")
    ELSE IF key = <<>> THEN Fail(st, "invalid config key")
    ELSE ScanStore(st, key, parseTomlValue(TrimSpace(Tail2(line, eq + 1))))

ScanSplitAt(st, line, eq) ==
    ScanSplit(st, line, eq, TrimSpace(SubSeq(line, 1, eq - 1)))

\* A "key = value" line.
ScanKeyValue(st, line) == ScanSplitAt(st, line, Index(line, <<"=">>))

\* A loadConfig whose blank lines leave the open section open.
ScanTrimmedThroughBlanks(st, line) ==
    IF line = <<>> THEN st
    ELSE IF HasPrefix(line, <<"#">>) THEN st
    ELSE IF HasPrefix(line, <<"[">>) /\ HasSuffix(line, <<"]">>)
    THEN ScanSection(st, line)
    ELSE ScanKeyValue(st, line)

\* The body of loadConfig's loop for one trimmed line.
ScanTrimmed(st, line) ==
    IF line = <<>>
    THEN [st EXCEPT !.currentCommand = <<>>, !.inExecutors = FALSE]
    ELSE IF HasPrefix(line, <<"#">>) THEN st
    ELSE IF HasPrefix(line, <<"[">>) /\ HasSuffix(line, <<"]">>)
    THEN ScanSection(st, line)
    ELSE ScanKeyValue(st, line)

\* The body of loadConfig's loop for one scanned line.
ScanLine(st, raw) == ScanTrimmed(st, TrimSpace(raw))

RECURSIVE ScanAll(_, _, _)
ScanAll(st, lines, i) ==
    IF i > Len(lines) \/ st.err # "" THEN st
    ELSE ScanAll(ScanLine(st, lines[i]), lines, i + 1)

NoFile == "NoFile"
NoCfg == "NoCfg"

\* loadConfig: the decoded model, or an error and no model.
LoadResult(st) ==
    IF st.err # "" THEN [err |-> st.err, cfg |-> NoCfg]
    ELSE [err |-> "",
          cfg |-> [Scalars |-> st.Scalars, Commands |-> st.Commands,
                   Executors |-> mergeDefaultExecutors(st.Executors)]]

loadConfig(text) ==
    IF text = NoFile THEN [err |-> "not exist", cfg |-> NoCfg]
    ELSE LoadResult(ScanAll(ScanStart, ScanLines(text, 1), 1))

\* One "key = quoted value" line.
KeyValueLine(key, value) == key \o <<" ", "=", " ">> \o Quote(value) \o <<"\n">>

RECURSIVE EncodeEntries(_, _, _)
EncodeEntries(m, keys, i) ==
    IF i > Len(keys) THEN <<>>
    ELSE KeyValueLine(keys[i], m[keys[i]]) \o EncodeEntries(m, keys, i + 1)

RECURSIVE EncodeCommands(_, _, _)
EncodeCommands(m, names, i) ==
    IF i > Len(names) THEN <<>>
    ELSE <<"[">> \o commandsPrefix \o names[i] \o <<"]", "\n">>
         \o KeyValueLine(pathKey, m[names[i]].Path)
         \o KeyValueLine(descriptionKey, m[names[i]].Description)
         \o (IF i # Len(names) THEN <<"\n">> ELSE <<>>)
         \o EncodeCommands(m, names, i + 1)

\* encodeConfig: scalars, then [executors], then one section per command,
\* each group in sorted key order.
\* The text so far, then the command sections.
EncodeWithCommands(c, sofar) ==
    IF DOMAIN c.Commands = {} THEN sofar
    ELSE sofar \o (IF sofar # <<>> THEN <<"\n">> ELSE <<>>)
         \o EncodeCommands(c.Commands, SortStrings(DOMAIN c.Commands), 1)

\* The scalar lines, then the [executors] section.
EncodeWithExecutors(c, scalars) ==
    IF DOMAIN c.Executors # {}
    THEN scalars \o (IF scalars # <<>> THEN <<"\n">> ELSE <<>>)
         \o <<"[">> \o executorsName \o <<"]", "\n">>
         \o EncodeEntries(c.Executors, SortStrings(DOMAIN c.Executors), 1)
    ELSE scalars

encodeConfig(c) ==
    EncodeWithCommands(c,
        EncodeWithExecutors(c,
            EncodeEntries(c.Scalars, SortStrings(DOMAIN c.Scalars), 1)))

(***************************************************************************)
(* paths.go: the path resolver, with the path/filepath and os functions it *)
(* calls (Unix: the separator is "/")                                      *)
(***************************************************************************)

\* The working directory of every invocation and the value of
\* $XDG_CONFIG_HOME, the base of os.UserConfigDir.
Cwd == <<"/", "w">>
XdgConfigHome == <<"/", "x">>
HomeName == <<"H", "O", "M", "E">>
XdgName == <<"X","D","G","_","C","O","N","F","I","G","_","H","O","M","E">>
HomeShorthand == <<"$", "H", "O", "M", "E">>

\* os.Getenv in an environment where HOME is h.
Getenv(name, h) ==
    IF name = HomeName THEN h
    ELSE IF name = XdgName THEN XdgConfigHome
    ELSE <<>>

\* os.isShellSpecialVar and os.isAlphaNum on the characters of the model.
isShellSpecialVar(c) == c \in {"#", "$", "-"}
isAlphaNum(c) == c = "_" \/ c \in Range(UpperLetters) \/ c \in Range(LowerLetters)

\* os.getShellName: the variable name at the start of s (s is not empty)
\* and the number of characters it takes.
getShellName(s) ==
    IF s[1] = "{"
    THEN IF Len(s) > 2 /\ isShellSpecialVar(s[2]) /\ s[3] = "}"
         THEN [name |-> <<s[2]>>, w |-> 3]
         ELSE LET close == {i \in 2..Len(s) : s[i] = "}"}
                  c == CHOOSE i \in close : \A j \in close : i <= j
              IN  IF close = {} THEN [name |-> <<>>, w |-> 1]
                  ELSE IF c = 2 THEN [name |-> <<>>, w |-> 2]
                  ELSE [name |-> SubSeq(s, 2, c - 1), w |-> c]
    ELSE IF isShellSpecialVar(s[1]) THEN [name |-> <<s[1]>>, w |-> 1]
    ELSE LET stop == {i \in 1..Len(s) : ~isAlphaNum(s[i])}
             n == IF stop = {} THEN Len(s)
                  ELSE (CHOOSE i \in stop : \A j \in stop : i <= j) - 1
         IN  [name |-> SubSeq(s, 1, n), w |-> n]

\* os.ExpandEnv from position j on.
RECURSIVE ExpandFrom(_, _, _)
\* The expansion of the "$" at position j, whose name is sn.
ExpandName(s, j, h, sn) ==
    (IF sn.name = <<>> /\ sn.w > 0 THEN <<>>
     ELSE IF sn.name = <<>> THEN <<"$">>
     ELSE Getenv(sn.name, h))
    \o ExpandFrom(s, j + sn.w + 1, h)

ExpandFrom(s, j, h) ==
    IF j > Len(s) THEN <<>>
    ELSE IF s[j] = "$" /\ j + 1 <= Len(s)
    THEN ExpandName(s, j, h, getShellName(Tail2(s, j + 1)))
    ELSE <<s[j]>> \o ExpandFrom(s, j + 1, h)

ExpandEnv(s, h) == ExpandFrom(s, 1, h)

\* strings.Split(s, "/") from position i on.
RECURSIVE SplitPath(_, _)
SplitPath(s, i) ==
    LET sl == {j \in i..Len(s) : s[j] = "/"}
    IN  IF sl = {} THEN <<SubSeq(s, i, Len(s))>>
        ELSE LET j == CHOOSE x \in sl : \A y \in sl : x <= y
             IN  <<SubSeq(s, i, j - 1)>> \o SplitPath(s, j + 1)

RECURSIVE JoinSlash(_, _)
JoinSlash(parts, i) ==
    IF i > Len(parts) THEN <<>>
    ELSE parts[i] \o (IF i < Len(parts) THEN <<"/">> ELSE <<>>)
         \o JoinSlash(parts, i + 1)

\* The elements filepath.Clean keeps: "" and "." are dropped, ".." removes
\* the element before it (at the root it is dropped, at the start of a
\* relative path it stays).
RECURSIVE CleanParts(_, _, _, _)
CleanParts(parts, i, rooted, out) ==
    IF i > Len(parts) THEN out
    ELSE IF parts[i] = <<>> \/ parts[i] = <<".">>
    THEN CleanParts(parts, i + 1, rooted, out)
    ELSE IF parts[i] = <<".", ".">>
    THEN IF Len(out) > 0 /\ out[Len(out)] # <<".", ".">>
         THEN CleanParts(parts, i + 1, rooted, SubSeq(out, 1, Len(out) - 1))
         ELSE IF rooted THEN CleanParts(parts, i + 1, rooted, out)
         ELSE CleanParts(parts, i + 1, rooted, Append(out, parts[i]))
    ELSE CleanParts(parts, i + 1, rooted, Append(out, parts[i]))

\* filepath.Clean
CleanJoin(rooted, out) ==
    IF rooted THEN <<"/">> \o JoinSlash(out, 1)
    ELSE IF out = <<>> THEN <<".">>
    ELSE JoinSlash(out, 1)

Clean(p) ==
    IF p = <<>> THEN <<".">>
    ELSE CleanJoin(p[1] = "/", CleanParts(SplitPath(p, 1), 1, p[1] = "/", <<>>))

\* filepath.IsAbs
IsAbs(p) == Len(p) > 0 /\ p[1] = "/"

\* filepath.Join of two elements.
Join(a, b) ==
    IF a = <<>> /\ b = <<>> THEN <<>>
    ELSE IF a = <<>> THEN Clean(b)
    ELSE Clean(a \o <<"/">> \o b)

\* filepath.Abs
Abs(p) == IF IsAbs(p) THEN Clean(p) ELSE Join(Cwd, p)

\* filepath.Ext: the suffix from the last dot of the last element on.
Ext(p) ==
    LET sl == {i \in 1..Len(p) : p[i] = "/"}
        from == IF sl = {} THEN 1 ELSE (CHOOSE i \in sl : \A j \in sl : i >= j) + 1
        dots == {i \in from..Len(p) : p[i] = "."}
    IN  IF dots = {} THEN <<>>
        ELSE Tail2(p, CHOOSE i \in dots : \A j \in dots : i >= j)

\* filepath.Dir
Dir(p) ==
    LET sl == {i \in 1..Len(p) : p[i] = "/"}
    IN  IF sl = {} THEN <<".">>
        ELSE Clean(SubSeq(p, 1, CHOOSE i \in sl : \A j \in sl : i >= j))

\* currentHomeDir: $HOME, or "" when it is unset (os.UserHomeDir reads the
\* same variable and fails).
currentHomeDir(h) == h

expandHomeShortcut(path, h) ==
    IF path = <<>> THEN [ok |-> TRUE, val |-> path]
    ELSE IF ~HasPrefix(path, <<"~">>) THEN [ok |-> TRUE, val |-> path]
    ELSE IF currentHomeDir(h) = <<>> THEN [ok |-> FALSE, val |-> <<>>]
    ELSE IF path = <<"~">> THEN [ok |-> TRUE, val |-> currentHomeDir(h)]
    ELSE IF HasPrefix(path, <<"~", "/">>)
    THEN [ok |-> TRUE, val |-> Join(currentHomeDir(h), Tail2(path, 3))]
    ELSE [ok |-> TRUE, val |-> path]

\* resolveUserPath: the absolute path, or one of the errors "path is empty"
\* and "cannot expand ~".
\* The end of resolveUserPath, for the outcome of expandHomeShortcut.
resolveExpanded(expanded) ==
    IF ~expanded.ok THEN [err |-> "cannot expand ~", val |-> <<>>]
    ELSE [err |-> "", val |-> Abs(expanded.val)]

resolveUserPath(in, h) ==
    IF in = <<>> THEN [err |-> "path is empty", val |-> <<>>]
    ELSE resolveExpanded(expandHomeShortcut(ExpandEnv(in, h), h))

\* The remainder of cleanPath below the home directory.
collapseRelative(relative) ==
    IF relative = <<>> THEN HomeShorthand ELSE Join(HomeShorthand, relative)

\* A collapseHomePath that takes the home directory as a prefix of the text of
\* the path, without the separator after it.
collapseCleanedByText(path, cleanHome, cleanPath) ==
    IF cleanPath = cleanHome THEN HomeShorthand
    ELSE IF HasPrefix(cleanPath, cleanHome)
    THEN HomeShorthand \o TrimPrefix(cleanPath, cleanHome)
    ELSE path

\* collapseHomePath once the home directory and the path are cleaned.
collapseCleaned(path, cleanHome, cleanPath) ==
    IF cleanPath = cleanHome THEN HomeShorthand
    ELSE IF HasPrefix(cleanPath, cleanHome \o <<"/">>)
    THEN collapseRelative(TrimPrefix(cleanPath, cleanHome \o <<"/">>))
    ELSE path

collapseHomePath(path, h) ==
    IF path = <<>> THEN path
    ELSE IF currentHomeDir(h) = <<>> THEN path
    ELSE collapseCleaned(path, Clean(currentHomeDir(h)), Clean(path))

(***************************************************************************)
(* The file system the handlers see: regular files that exist (script      *)
(* files are never created or removed by the program) and the directories, *)
(* which os.MkdirAll extends.                                              *)
(***************************************************************************)

HomeDir == <<"/", "h">>

Files ==
    { <<"/","x","/","m","i","n","e","/","c","o","m","m","a","n","d","s","/","d",".","s","h">>,
      <<"/","w","/","s","/","c",".","r","b">>,
      <<"/","h","/","t",".","S","H">>,
      <<"/","w","/","n">>,
      <<"/","x","/","m","i","n","e","/","c","o","m","m","a","n","d","s","/","a","$","b",".","s","h">> }

InitDirs ==
    { <<"/">>, <<"/","w">>, <<"/","w","/","s">>, <<"/","h">>, <<"/","x">>,
      <<"/","x","/","m","i","n","e">>,
      <<"/","x","/","m","i","n","e","/","c","o","m","m","a","n","d","s">> }

\* The directories above p, up to the root.
RECURSIVE Ancestors(_)
AncestorsFrom(p, parent) == IF parent = p THEN {} ELSE {parent} \cup Ancestors(parent)

Ancestors(p) == AncestorsFrom(p, Dir(p))

\* os.Stat of an absolute path: a file, a directory, absent (ErrNotExist), or
\* another error (ENOTDIR: a regular file stands where a directory should).
Stat(p, d) ==
    IF p \in Files THEN "file"
    ELSE IF Ancestors(p) \cap Files # {} THEN "error"
    ELSE IF p \in d THEN "dir"
    ELSE "absent"

\* os.MkdirAll: p and the directories above it exist afterwards; it fails
\* where a regular file is in the way.
MkdirChain(chain, d) ==
    IF chain \cap Files # {} THEN [ok |-> FALSE, dirs |-> d]
    ELSE [ok |-> TRUE, dirs |-> d \cup chain]

MkdirAll(p, d) == MkdirChain({p} \cup Ancestors(p), d)

(***************************************************************************)
(* config.go: the configuration store                                      *)
(***************************************************************************)

\* os.UserConfigDir()/mine
appConfigDir == Join(XdgConfigHome, appName)

\* resolveConfigPath once the extension is settled.
resolveWithExt(target, withExt) ==
    IF IsAbs(target) THEN withExt
    ELSE IF Contains(target, <<"/">>) \/ Contains(target, <<"\\">>)
    THEN Join(appConfigDir, withExt)
    ELSE Join(appConfigDir, withExt)

resolveTarget(target) ==
    resolveWithExt(target, IF Ext(target) = <<>> THEN target \o tomlSuffix ELSE target)

\* resolveConfigPath: the location of the config file for -config-file name.
resolveConfigPath(name) ==
    resolveTarget(IF name = <<>> THEN defaultConfigName ELSE name)

defaultConfig(configDir) ==
    [Scalars |-> (commandsFolderKey :> Join(configDir, commandsDirName)),
     Commands |-> EmptyMap,
     Executors |-> defaultExecutors]

\* What the operating system does with a write of the config file: "ok",
\* "openfail" (the file cannot be opened for writing: it stays as it is) or
\* "writefail" (opened and truncated, then the write fails).
IoOutcomes == {"ok", "openfail", "writefail"}

\* os.WriteFile of the encoded model, after os.MkdirAll returned mk.
WriteFile(c, f, d, io, mk) ==
    IF ~mk.ok THEN [err |-> "mkdir", file |-> f, dirs |-> d]
    ELSE IF io = "openfail" THEN [err |-> "write", file |-> f, dirs |-> mk.dirs]
    ELSE IF io = "writefail" THEN [err |-> "write", file |-> <<>>, dirs |-> mk.dirs]
    ELSE [err |-> "", file |-> encodeConfig(c), dirs |-> mk.dirs]

\* writeConfig: os.MkdirAll of the directory, then os.WriteFile of the
\* encoded model.
writeConfig(path, c, f, d, io) == WriteFile(c, f, d, io, MkdirAll(Dir(path), d))

\* ensureConfig when the file does not exist: the defaults def were written
\* with outcome w.
ensureWritten(def, w) ==
    IF w.err # ""
    THEN [err |-> w.err, cfg |-> NoCfg, file |-> w.file, dirs |-> w.dirs]
    ELSE [err |-> "", cfg |-> def, file |-> w.file, dirs |-> w.dirs]

ensureDefault(path, def, f, d, io) ==
    ensureWritten(def, writeConfig(path, def, f, d, io))

\* An ensureConfig that replaces a file it cannot decode by the defaults.
ensureLoadedRecovering(path, f, d, io, ld) ==
    IF ld.err = ""
    THEN [err |-> "", cfg |-> ld.cfg, file |-> f, dirs |-> d]
    ELSE ensureDefault(path, defaultConfig(Dir(path)), f, d, io)

\* An ensureConfig that saves the model it has loaded, built-in executors
\* included.
ensureLoadedSaving(path, f, d, io, ld) ==
    IF ld.err = ""
    THEN [err |-> "", cfg |-> ld.cfg, file |-> encodeConfig(ld.cfg), dirs |-> d]
    ELSE IF ld.err = "not exist"
    THEN ensureDefault(path, defaultConfig(Dir(path)), f, d, io)
    ELSE [err |-> ld.err, cfg |-> NoCfg, file |-> f, dirs |-> d]

\* ensureConfig after loadConfig returned ld, in the directories d.
ensureLoaded(path, f, d, io, ld) ==
    IF ld.err = ""
    THEN [err |-> "", cfg |-> ld.cfg, file |-> f, dirs |-> d]
    ELSE IF ld.err = "not exist"
    THEN ensureDefault(path, defaultConfig(Dir(path)), f, d, io)
    ELSE [err |-> ld.err, cfg |-> NoCfg, file |-> f, dirs |-> d]

\* ensureConfig after os.MkdirAll of the file's directory returned mk.
ensureMade(path, f, d, io, mk) ==
    IF ~mk.ok THEN [err |-> "mkdir", cfg |-> NoCfg, file |-> f, dirs |-> d]
    ELSE ensureLoaded(path, f, mk.dirs, io, loadConfig(f))

\* ensureConfig: load the file, or create it with the defaults when it does
\* not exist.
ensureConfig(path, f, d, io) == ensureMade(path, f, d, io, MkdirAll(Dir(path), d))

(***************************************************************************)
(* main.go: the command handlers                                           *)
(***************************************************************************)

isSimpleCommandName(value) ==
    /\ value # <<>>
    /\ ~IsAbs(value)
    /\ ~HasPrefix(value, <<"~">>)
    /\ ~HasPrefix(value, <<"$">>)
    /\ ~Contains(value, <<"/">>)

\* The error of the os.Stat checks of a script file ("" for a regular file).
StatKindError(kind) ==
    CASE kind = "absent" -> "does not exist"
      [] kind = "error"  -> "unable to inspect"
      [] kind = "dir"    -> "is a directory"
      [] OTHER           -> ""

StatError(p, d) == StatKindError(Stat(p, d))

\* The script path handleAddCommand checks and stores, for a resolved
\* commands folder.
AddCommandPath(fileName, commandsDir, h) ==
    IF isSimpleCommandName(fileName)
    THEN [err |-> "", val |-> Join(commandsDir, fileName)]
    ELSE resolveUserPath(fileName, h)

\* An entry that keeps the script path as it was resolved.
AddEntryResolved(commandPath, description, h) ==
    [Path |-> commandPath, Description |-> description]

\* The entry handleAddCommand inserts.
AddEntry(commandPath, description, h) ==
    [Path |-> collapseHomePath(commandPath, h), Description |-> description]

\* handleAddCommand returns err before it has touched the model or the file.
AddFailure(err, c, f, d) == [err |-> err, cfg |-> c, file |-> f, dirs |-> d]

\* handleAddCommand after writeConfig of the extended model returned w.
AddWritten(inserted, w) ==
    [err |-> IF w.err # "" THEN "unable to update config" ELSE "",
     cfg |-> inserted, file |-> w.file, dirs |-> w.dirs]

AddInserted(inserted, path, f, d, io) ==
    AddWritten(inserted, writeConfig(path, inserted, f, d, io))

\* A handleAddCommand without the check for an existing alias: the entry of
\* the alias is replaced.
AddStattedReplacing(cmd, c, path, f, d, h, io, commandPath, statErr) ==
    IF statErr # "" THEN AddFailure(statErr, c, f, d)
    ELSE AddInserted(
            [c EXCEPT !.Commands =
                (cmd.commandName :> AddEntry(commandPath, cmd.description, h))
                @@ c.Commands],
            path, f, d, io)

\* handleAddCommand after os.Stat of the script: statErr is its error.
AddStatted(cmd, c, path, f, d, h, io, commandPath, statErr) ==
    IF statErr # "" THEN AddFailure(statErr, c, f, d)
    ELSE IF cmd.commandName \in DOMAIN c.Commands
    THEN AddFailure("already exists", c, f, d)
    ELSE AddInserted(
            [c EXCEPT !.Commands =
                (cmd.commandName :> AddEntry(commandPath, cmd.description, h))
                @@ c.Commands],
            path, f, d, io)

\* A handleAddCommand that looks for the alias in the catalog before it
\* looks at the script file.
AddLocatedAliasFirst(cmd, c, path, f, d, h, io, commandPath) ==
    IF commandPath.err # "" THEN AddFailure("unable to resolve path", c, f, d)
    ELSE IF cmd.commandName \in DOMAIN c.Commands
    THEN AddFailure("already exists", c, f, d)
    ELSE AddStatted(cmd, c, path, f, d, h, io, commandPath.val,
                    StatError(commandPath.val, d))

\* A handleAddCommand that has put the entry into the model before it looks
\* at the script file.
AddLocatedEager(cmd, c, path, f, d, h, io, commandPath) ==
    IF commandPath.err # "" THEN AddFailure("unable to resolve path", c, f, d)
    ELSE AddStatted(cmd,
            [c EXCEPT !.Commands =
                (cmd.commandName :> AddEntry(commandPath.val, cmd.description, h))
                @@ c.Commands],
            path, f, d, h, io, commandPath.val, StatError(commandPath.val, d))

\* handleAddCommand after the script path is resolved.
AddLocated(cmd, c, path, f, d, h, io, commandPath) ==
    IF commandPath.err # "" THEN AddFailure("unable to resolve path", c, f, d)
    ELSE AddStatted(cmd, c, path, f, d, h, io, commandPath.val,
                    StatError(commandPath.val, d))

\* handleAddCommand after os.MkdirAll of the commands folder returned mk.
AddPrepared(cmd, c, path, f, d, h, io, commandsDir, mk) ==
    IF ~mk.ok THEN AddFailure("unable to prepare commands folder", c, f, d)
    ELSE AddLocated(cmd, c, path, f, mk.dirs, h, io,
                    AddCommandPath(cmd.fileName, commandsDir, h))

\* handleAddCommand after the commands folder is resolved.
AddResolved(cmd, c, path, f, d, h, io, commandsDir) ==
    IF commandsDir.err # ""
    THEN AddFailure("unable to resolve commands_folder", c, f, d)
    ELSE AddPrepared(cmd, c, path, f, d, h, io, commandsDir.val,
                     MkdirAll(commandsDir.val, d))

\* handleAddCommand(cmd, cfg, configPath): the error it returns ("" for
\* success) and the model, the config file and the directories it leaves.
handleAddCommand(cmd, c, path, f, d, h, io) ==
    IF commandsFolderKey \notin DOMAIN c.Scalars
    THEN AddFailure("commands_folder is not configured", c, f, d)
    ELSE IF c.Scalars[commandsFolderKey] = <<>>
    THEN AddFailure("commands_folder is not configured", c, f, d)
    ELSE AddResolved(cmd, c, path, f, d, h, io,
                     resolveUserPath(c.Scalars[commandsFolderKey], h))

\* A quoting that wraps the path in single quotes and escapes nothing.
shellQuoteWrapping(path) == <<"'">> \o path \o <<"'">>

shellQuote(path) ==
    IF path = <<>> THEN <<"'", "'">>
    ELSE <<"'">> \o ReplaceAll(path, <<"'">>, <<"'", "\\", "'", "'">>) \o <<"'">>

buildExecutorCommand(template, scriptPath) ==
    IF ~Contains(template, placeholder)
    THEN [err |-> "must include {{path}}", val |-> <<>>]
    ELSE [err |-> "", val |-> ReplaceAll(template, placeholder, shellQuote(scriptPath))]

NotLaunched == "NotLaunched"

\* handleExecCommand returns err without starting a process.
ExecFailure(err) == [err |-> err, launched |-> NotLaunched]

\* handleExecCommand after buildExecutorCommand returned built.
ExecBuilt(built, status) ==
    IF built.err # "" THEN ExecFailure(built.err)
    ELSE IF status # 0
    THEN [err |-> "executor command failed", launched |-> built.val]
    ELSE [err |-> "", launched |-> built.val]

\* handleExecCommand once the extension of the script is known.
ExecWithExt(c, scriptPath, ext, status) ==
    IF ext = <<>> THEN ExecFailure("has no extension")
    ELSE IF ext \notin DOMAIN c.Executors
    THEN ExecFailure("no executor configured")
    ELSE ExecBuilt(buildExecutorCommand(c.Executors[ext], scriptPath), status)

\* A handleExecCommand that looks at the extension before the outcome of
\* os.Stat.
ExecStattedExtFirst(c, scriptPath, statErr, status) ==
    IF TrimPrefix(ToLower(Ext(scriptPath)), <<".">>) = <<>>
    THEN ExecFailure("has no extension")
    ELSE IF statErr # "" THEN ExecFailure(statErr)
    ELSE ExecWithExt(c, scriptPath,
                     TrimPrefix(ToLower(Ext(scriptPath)), <<".">>), status)

\* handleExecCommand after os.Stat of the script: statErr is its error.
ExecStatted(c, scriptPath, statErr, status) ==
    IF statErr # "" THEN ExecFailure(statErr)
    ELSE ExecWithExt(c, scriptPath,
                     TrimPrefix(ToLower(Ext(scriptPath)), <<".">>), status)

\* handleExecCommand after the stored path is resolved.
ExecResolved(c, d, resolved, status) ==
    IF resolved.err # "" THEN ExecFailure("unable to resolve command path")
    ELSE ExecStatted(c, resolved.val, StatError(resolved.val, d), status)

\* handleExecCommand(cmd, cfg): the error it returns and the command line it
\* hands to "sh -c" (NotLaunched when it starts no process); status is the
\* exit status of the process.
handleExecCommand(name, c, d, h, status) ==
    IF name \notin DOMAIN c.Commands THEN ExecFailure("not found")
    ELSE IF c.Commands[name].Path = <<>> THEN ExecFailure("has no path configured")
    ELSE ExecResolved(c, d, resolveUserPath(c.Commands[name].Path, h), status)

\* The aliases in descending order.
ListOrderDescending(names) ==
    [i \in 1..Cardinality(names) |->
        SortStrings(names)[Cardinality(names) + 1 - i]]

\* The order in which formatCommandList lists the aliases.
ListOrder(names) == SortStrings(names)

\* One "alias  description" line per name.
FormatLines(c, names) ==
    [i \in 1..Len(names) |->
        names[i] \o <<" ", " ">> \o c.Commands[names[i]].Description]

\* formatCommandList: the lines in the order of the sorted aliases.
formatCommandList(c) == FormatLines(c, ListOrder(DOMAIN c.Commands))

\* -config key value: the model with the scalar set, and the outcome w of
\* writing it.
ConfigWritten(set, w) ==
    [exit |-> IF w.err # "" THEN 1 ELSE 0, out |-> <<>>,
     cfg |-> set, file |-> w.file, dirs |-> w.dirs]

ConfigSet(set, path, f, d, io) == ConfigWritten(set, writeConfig(path, set, f, d, io))

\* What handleConfigCommand prints, with exit code exit, when it changes
\* nothing.
ConfigPrinted(exit, out, c, f, d) ==
    [exit |-> exit, out |-> out, cfg |-> c, file |-> f, dirs |-> d]

\* handleConfigCommand: -config prints the model, -config key prints a
\* scalar (exit code 1 when it is missing), -config key value sets a scalar
\* and writes the file.
handleConfigCommand(mode, key, value, c, path, f, d, io) ==
    CASE mode = "printAll" -> ConfigPrinted(0, <<encodeConfig(c)>>, c, f, d)
      [] mode = "get" ->
            IF key \in DOMAIN c.Scalars
            THEN ConfigPrinted(0, <<c.Scalars[key]>>, c, f, d)
            ELSE ConfigPrinted(1, <<>>, c, f, d)
      [] mode = "set" ->
            ConfigSet([c EXCEPT !.Scalars = (key :> value) @@ c.Scalars],
                      path, f, d, io)

(***************************************************************************)
(* The invocations of the program on one config file.  An invocation       *)
(* starts (main resolves the config path and calls ensureConfig), runs one *)
(* handler and exits.                                                      *)
(***************************************************************************)

\* Number of invocations in a behaviour.
MaxRuns == 2

ConfigPath == resolveConfigPath(<<>>)

\* A config file the user has edited by hand: an executor template without
\* the placeholder, and commands whose script is missing, a directory, below
\* a regular file, without extension, without executor, or not set at all.
UserCfg ==
    [Scalars |-> (commandsFolderKey :> <<"/","x","/","m","i","n","e","/","c","o","m","m","a","n","d","s">>),
     Executors |-> (<<"s","h">> :> <<"s","h">>),
     Commands |->
        (<<"e">> :> [Path |-> <<>>, Description |-> <<"E">>])
        @@ (<<"t">> :> [Path |-> <<"~","/","t",".","S","H">>, Description |-> <<"T">>])
        @@ (<<"r">> :> [Path |-> <<"/","w","/","s","/","c",".","r","b">>, Description |-> <<>>])
        @@ (<<"n">> :> [Path |-> <<"/","w","/","n">>, Description |-> <<>>])
        @@ (<<"g">> :> [Path |-> <<"/","w","/","g",".","s","h">>, Description |-> <<>>])
        @@ (<<"s">> :> [Path |-> <<"/","w","/","s">>, Description |-> <<>>])
        @@ (<<"x">> :> [Path |-> <<"/","w","/","n","/","x",".","s","h">>, Description |-> <<>>])]

\* A model without commands_folder and without executors.
BareCfg ==
    [Scalars |-> EmptyMap,
     Executors |-> EmptyMap,
     Commands |-> (<<"t">> :> [Path |-> <<"/","w","/","n">>, Description |-> <<>>])]

\* Lines that loadConfig rejects wherever they stand: an unknown section, a
\* commands section without alias, a line without "=", an empty key, an
\* empty value and a badly escaped value.
BadLines ==
    { <<"[","x","]">>,
      <<"[","c","o","m","m","a","n","d","s",".","]">>,
      <<"n","o","v","a","l","u","e">>,
      <<"="," ","v">>,
      <<"k"," ","=">>,
      <<"k"," ","="," ","\"","\\","q","\"">> }

\* Hand-edited files with one malformed line: before the lines of a valid
\* file, after them, and a scalar line inside a commands section.
MalformedFiles ==
    {l \o <<"\n">> \o encodeConfig(BareCfg) : l \in BadLines}
      \cup {encodeConfig(UserCfg) \o l \o <<"\n">> : l \in BadLines}
      \cup {encodeConfig(BareCfg) \o <<"#"," ","c">> \o <<"\n">>
              \o <<"k"," ","="," ","\"","v","\"">> \o <<"\n">>}

\* A hand-edited file without commands_folder, whose one executor key is
\* written in capitals.
UpperFile ==
    <<"[","e","x","e","c","u","t","o","r","s","]","\n">> \o
    <<"S","H"," ","="," ","\"","z","s","h"," ","{","{","p","a","t","h","}","}","\"","\n">> \o
    <<"\n">> \o
    <<"[","c","o","m","m","a","n","d","s",".","t","]","\n">> \o
    <<"p","a","t","h"," ","="," ","\"","~","/","t",".","S","H","\"","\n">>

InitFiles ==
    {encodeConfig(UserCfg), UpperFile} \cup MalformedFiles
Homes == {HomeDir, <<>>}

\* The arguments of the invocations.
AddFileNames ==
    { <<"d",".","s","h">>, <<"s","/","c",".","r","b">>, <<"~","/","t",".","S","H">>,
      <<"t",".","S","H">>, <<"g",".","s","h">>, <<"/","w","/","s">>,
      <<"n","/","x",".","s","h">>, <<"/","w","/","n">>,
      <<"$","H","O","M","E","/","t",".","S","H">>,
      <<"a","$","b",".","s","h">> }
Aliases == { <<"a">>, <<"t">>, <<>> }
Descriptions == { <<"D">>, <<"=", " ", "\"", "[">> }
ExecNames == { <<"a">>, <<"e">>, <<"t">>, <<"r">>, <<"n">>, <<"g">>, <<"s">>, <<"x">>, <<"z">> }
ConfigKeys == { commandsFolderKey, <<"k">>, <<"a", "=", "b">>, <<>> }
ConfigValues == { <<"~">>, <<>>, <<"/","w","/","n">>, <<"[", "\\", " ">> }
ExitStatuses == {0, 1}

NoRes ==
    [op |-> "none", err |-> "", exit |-> 0, fileName |-> <<>>, name |-> <<>>,
     description |-> <<>>, key |-> <<>>, value |-> <<>>,
     launched |-> NotLaunched, out |-> <<>>, cfg0 |-> NoCfg, file0 |-> NoFile]

Init ==
    /\ file = NoFile \/ file \in InitFiles
    /\ dirs = InitDirs
    /\ home \in Homes
    /\ cfg = NoCfg
    /\ pc = "idle"
    /\ res = NoRes
    /\ runs = 0
    /\ input = <<>>
    /\ output = <<>>

\* main up to the dispatch: userConfigDir creates the application's config
\* directory, ensureConfig loads or creates the file; exit code 1 on error.
Start ==
    /\ pc = "idle"
    /\ runs < MaxRuns
    /\ \E io \in IoOutcomes, mk \in {MkdirAll(appConfigDir, dirs)} :
         /\ mk.ok
         /\ \E e \in {ensureConfig(ConfigPath, file, mk.dirs, io)} :
             /\ file' = e.file
             /\ dirs' = e.dirs
             /\ cfg' = e.cfg
             /\ pc' = IF e.err = "" THEN "loaded" ELSE "exited"
             /\ res' = [NoRes EXCEPT !.op = "load", !.err = e.err, !.file0 = file,
                                     !.exit = IF e.err = "" THEN 0 ELSE 1]
    /\ runs' = runs + 1
    /\ UNCHANGED <<home, input, output>>

\* mine add fileName alias description
Add ==
    /\ pc = "loaded"
    /\ \E fileName \in AddFileNames, alias \in Aliases,
          description \in Descriptions, io \in IoOutcomes :
         \E r \in {handleAddCommand(
                     [fileName |-> fileName, commandName |-> alias,
                      description |-> description],
                     cfg, ConfigPath, file, dirs, home, io)} :
             /\ file' = r.file
             /\ dirs' = r.dirs
             /\ cfg' = r.cfg
             /\ res' = [NoRes EXCEPT !.op = "add", !.err = r.err,
                                     !.cfg0 = cfg, !.file0 = file,
                                     !.exit = IF r.err = "" THEN 0 ELSE 1,
                                     !.fileName = fileName, !.name = alias,
                                     !.description = description]
    /\ pc' = "exited"
    /\ UNCHANGED <<home, runs, input, output>>

\* mine exec alias
Exec ==
    /\ pc = "loaded"
    /\ \E name \in ExecNames, status \in ExitStatuses :
         \E r \in {handleExecCommand(name, cfg, dirs, home, status)} :
             res' = [NoRes EXCEPT !.op = "exec", !.err = r.err,
                                  !.cfg0 = cfg, !.file0 = file,
                                  !.exit = IF r.err = "" THEN 0 ELSE 1,
                                  !.name = name, !.launched = r.launched]
    /\ pc' = "exited"
    /\ UNCHANGED <<file, dirs, home, cfg, runs, input, output>>

\* mine ls
List ==
    /\ pc = "loaded"
    /\ res' = [NoRes EXCEPT !.op = "ls", !.out = formatCommandList(cfg),
                            !.cfg0 = cfg, !.file0 = file]
    /\ pc' = "exited"
    /\ UNCHANGED <<file, dirs, home, cfg, runs, input, output>>

\* mine -config, mine -config key, mine -config key value
Config ==
    /\ pc = "loaded"
    /\ \E mode \in {"printAll", "get", "set"}, key \in ConfigKeys,
          value \in ConfigValues, io \in IoOutcomes :
         /\ mode # "set" => (value = <<>> /\ io = "ok")
         /\ mode = "printAll" => key = <<>>
         /\ \E r \in {handleConfigCommand(mode, key, value, cfg, ConfigPath,
                                          file, dirs, io)} :
             /\ file' = r.file
             /\ dirs' = r.dirs
             /\ cfg' = r.cfg
             /\ res' = [NoRes EXCEPT !.op = mode, !.exit = r.exit, !.key = key,
                                     !.cfg0 = cfg, !.file0 = file,
                                     !.value = value, !.out = r.out]
    /\ pc' = "exited"
    /\ UNCHANGED <<home, runs, input, output>>

\* The process ends; its model is gone.
Exit ==
    /\ pc = "exited"
    /\ pc' = "idle"
    /\ cfg' = NoCfg
    /\ res' = NoRes
    /\ UNCHANGED <<file, dirs, home, runs, input, output>>

Next == Start \/ Add \/ Exec \/ List \/ Config \/ Exit

Spec == Init /\ [][Next]_vars

(***************************************************************************)
(* Properties of the invocations                                           *)
(***************************************************************************)

\* The invocation has ended after a handler wrote the model to the file,
\* and the alias or the key it was given is not empty.
Saved ==
    /\ pc = "exited"
    /\ \/ res.op = "add" /\ res.err = "" /\ res.name # <<>>
       \/ res.op = "set" /\ res.exit = 0 /\ res.key # <<>>

\* C1: round trip of the codec.  Whenever add (with a non-empty alias) or
\* -config key value (with a non-empty key) has saved the model, decoding
\* the text encodeConfig produces for it succeeds and yields the same
\* scalars, executors and commands.
C1_RoundTrip ==
    Saved => /\ loadConfig(encodeConfig(cfg)).err = ""
             /\ loadConfig(encodeConfig(cfg)).cfg = cfg

\* C2: uniqueness.  An add whose alias is already in the catalog returns
\* an error and leaves the model and the config file as they were; and an
\* add never changes or removes the entry of an alias that was in the
\* catalog before it.
C2_Uniqueness ==
    (pc = "exited" /\ res.op = "add") =>
        /\ res.name \in DOMAIN res.cfg0.Commands =>
                res.err # "" /\ cfg = res.cfg0 /\ file = res.file0
        /\ \A a \in DOMAIN res.cfg0.Commands :
                a \in DOMAIN cfg.Commands /\ cfg.Commands[a] = res.cfg0.Commands[a]

\* An add of an existing script under an alias that is taken.
C2_Witness ==
    /\ pc = "exited" /\ res.op = "add"
    /\ res.name \in DOMAIN res.cfg0.Commands
    /\ res.err = "already exists"

\* The absolute path of the script of the last add: a bare file name under
\* the resolved commands folder, any other input resolved on its own.
AddedScript ==
    IF isSimpleCommandName(res.fileName)
    THEN Join(resolveUserPath(res.cfg0.Scalars[commandsFolderKey], home).val,
              res.fileName)
    ELSE resolveUserPath(res.fileName, home).val

\* The script lies in the home directory or below it.
InHome(p) == home # <<>> /\ (p = home \/ HasPrefix(p, home \o <<"/">>))

AddSucceeded == pc = "exited" /\ res.op = "add" /\ res.err = ""

ExecScript == resolveUserPath(cfg.Commands[res.name].Path, home)

\* The lowercase extension of that script, without the dot.
ExecExt == TrimPrefix(ToLower(Ext(ExecScript.val)), <<".">>)

\* The error of the first check of exec that fails, in the order: alias,
\* stored path, resolution, file, extension, executor, placeholder; "" when
\* every check passes.
ExecFirstFailure ==
    IF res.name \notin DOMAIN cfg.Commands THEN "not found"
    ELSE IF cfg.Commands[res.name].Path = <<>> THEN "has no path configured"
    ELSE IF ExecScript.err # "" THEN "unable to resolve command path"
    ELSE IF Stat(ExecScript.val, dirs) = "absent" THEN "does not exist"
    ELSE IF Stat(ExecScript.val, dirs) = "error" THEN "unable to inspect"
    ELSE IF Stat(ExecScript.val, dirs) = "dir" THEN "is a directory"
    ELSE IF ExecExt = <<>> THEN "has no extension"
    ELSE IF ExecExt \notin DOMAIN cfg.Executors THEN "no executor configured"
    ELSE IF ~Contains(cfg.Executors[ExecExt], placeholder)
    THEN "must include {{path}}"
    ELSE ""

ExecEnded == pc = "exited" /\ res.op = "exec"

\* C6: exec starts a process exactly when every check passes; otherwise it
\* returns the error of the first failing check and starts nothing.
C6_ExecChecks ==
    ExecEnded =>
        /\ ExecFirstFailure # "" =>
                res.err = ExecFirstFailure /\ res.launched = NotLaunched
        /\ ExecFirstFailure = "" => res.launched # NotLaunched

\* An exec of a script whose executor template lacks the placeholder.
C6_Witness ==
    /\ ExecEnded
    /\ res.err = "must include {{path}}"
    /\ res.launched = NotLaunched

\* The line of alias a in the listing.
ListLine(a) == a \o <<" ", " ">> \o cfg.Commands[a].Description

ListEnded == pc = "exited" /\ res.op = "ls"

\* C7: ls prints one "alias  description" line per command, the line of an
\* alias after the lines of all smaller aliases (byte order) and of no
\* others, nothing for an empty catalog, and leaves the model and the file
\* as they were.
C7_List ==
    ListEnded =>
        /\ Len(res.out) = Cardinality(DOMAIN cfg.Commands)
        /\ \A a \in DOMAIN cfg.Commands :
              res.out[1 + Cardinality({b \in DOMAIN cfg.Commands : StrLess(b, a)})]
                  = ListLine(a)
        /\ cfg = res.cfg0
        /\ file = res.file0

\* A listing of several commands.
C7_Witness == ListEnded /\ Len(res.out) >= 3

AddFailed == pc = "exited" /\ res.op = "add" /\ res.err # ""

\* C10: an add that fails before the entry is inserted leaves the model and
\* the file as they were; an add that fails to write the file leaves the
\* new entry in the model, and the file as it was or truncated; an add that
\* succeeds leaves the new entry in the model and the encoded model in the
\* file.
C10_AddOutcome ==
    /\ (AddFailed /\ res.err # "unable to update config") =>
            cfg = res.cfg0 /\ file = res.file0
    /\ (AddFailed /\ res.err = "unable to update config") =>
            /\ res.name \notin DOMAIN res.cfg0.Commands
            /\ res.name \in DOMAIN cfg.Commands
            /\ file = res.file0 \/ file = <<>>
    /\ AddSucceeded =>
            /\ res.name \notin DOMAIN res.cfg0.Commands
            /\ res.name \in DOMAIN cfg.Commands
            /\ cfg.Commands[res.name].Description = res.description
            /\ file = encodeConfig(cfg)

\* An add that could not write the config file.
C10_Witness ==
    /\ AddFailed
    /\ res.err = "unable to update config"
    /\ res.name \in DOMAIN cfg.Commands

\* C10 as stated: every add that returns an error leaves the model and the
\* file as they were.
C10_AllOrNothing == AddFailed => cfg = res.cfg0 /\ file = res.file0

(***************************************************************************)
(* buildExecutorCommand under a shell.  handleExecCommand hands the built  *)
(* command line to "sh -c"; ShellWords is the tokenization of a command    *)
(* line by the quoting rules of the POSIX shell.                           *)
(***************************************************************************)

\* A word of literal characters, and a token of the shell grammar that is
\* not a word: the operator ";", or the end of the text inside a quotation.
Word(text) == [op |-> FALSE, text |-> text]
Operator(text) == [op |-> TRUE, text |-> text]

\* "PATH" stands for the placeholder in a template; the tokenization hands
\* it on as "PATH" where it stands unquoted and as "QPATH" where it stands
\* inside quotes or behind a backslash.  "EXPAND" stands for a "$" the shell
\* expands.
Quoted(c) == IF c = "PATH" THEN "QPATH" ELSE c

\* The tokens out with the word cur closed, when one is open.
Flush(out, cur, open) == IF open THEN Append(out, Word(cur)) ELSE out

\* The tokenization of s from position i on: mode is "plain", "single" or
\* "double", cur the characters of the word in progress, open whether a word
\* is in progress.
RECURSIVE ShellLex(_, _, _, _, _, _)
ShellLexPlain(s, i, cur, open, out) ==
    CASE IsSpace(s[i]) -> ShellLex(s, i + 1, "plain", <<>>, FALSE, Flush(out, cur, open))
      [] s[i] = ";" ->
            ShellLex(s, i + 1, "plain", <<>>, FALSE,
                     Append(Flush(out, cur, open), Operator(<<";">>)))
      [] s[i] = "'" -> ShellLex(s, i + 1, "single", cur, TRUE, out)
      [] s[i] = "\"" -> ShellLex(s, i + 1, "double", cur, TRUE, out)
      [] s[i] = "\\" ->
            IF i = Len(s) THEN ShellLex(s, i + 1, "plain", Append(cur, "\\"), TRUE, out)
            ELSE ShellLex(s, i + 2, "plain", Append(cur, Quoted(s[i + 1])), TRUE, out)
      [] s[i] = "$" -> ShellLex(s, i + 1, "plain", Append(cur, "EXPAND"), TRUE, out)
      [] OTHER -> ShellLex(s, i + 1, "plain", Append(cur, s[i]), TRUE, out)

ShellLexDouble(s, i, cur, out) ==
    CASE s[i] = "\"" -> ShellLex(s, i + 1, "plain", cur, TRUE, out)
      [] s[i] = "\\" /\ i < Len(s) /\ s[i + 1] \in {"$", "\"", "\\"} ->
            ShellLex(s, i + 2, "double", Append(cur, s[i + 1]), TRUE, out)
      [] s[i] = "$" -> ShellLex(s, i + 1, "double", Append(cur, "EXPAND"), TRUE, out)
      [] OTHER -> ShellLex(s, i + 1, "double", Append(cur, Quoted(s[i])), TRUE, out)

ShellLex(s, i, mode, cur, open, out) ==
    IF i > Len(s)
    THEN IF mode = "plain" THEN Flush(out, cur, open)
         ELSE Append(Flush(out, cur, open), Operator(<<"unterminated">>))
    ELSE IF mode = "single"
    THEN IF s[i] = "'" THEN ShellLex(s, i + 1, "plain", cur, TRUE, out)
         ELSE ShellLex(s, i + 1, "single", Append(cur, Quoted(s[i])), TRUE, out)
    ELSE IF mode = "double" THEN ShellLexDouble(s, i, cur, out)
    ELSE ShellLexPlain(s, i, cur, open, out)

ShellWords(s) == ShellLex(s, 1, "plain", <<>>, FALSE, <<>>)

\* The executor templates.
Templates ==
    { <<"s","h"," ","{","{","p","a","t","h","}","}">>,
      <<"{","{","p","a","t","h","}","}">>,
      <<"c"," ","{","{","p","a","t","h","}","}"," ","{","{","p","a","t","h","}","}",";","b">>,
      <<"x","{","{","p","a","t","h","}","}","y">>,
      <<"s","h"," ","'","{","{","p","a","t","h","}","}","'">>,
      <<"s","h"," ","\"","{","{","p","a","t","h","}","}","\"">>,
      <<"s","h"," ","\\","{","{","p","a","t","h","}","}">>,
      <<"s","h"," ","'","a"," ","b","'"," ","\"","c",";","\""," ","{","{","p","a","t","h","}","}">>,
      <<"s","h">> }

\* The characters of the script paths and the longest path.
PathChars == {"a", "'", " ", ";", "$", "\"", "\\"}
MaxPathLen == 2

RECURSIVE StringsUpTo(_, _)
StringsUpTo(chars, n) ==
    IF n = 0 THEN {<<>>}
    ELSE StringsUpTo(chars, n - 1)
         \cup {Append(t, c) : t \in StringsUpTo(chars, n - 1), c \in chars}

InitQuote ==
    /\ input \in [template : Templates, path : StringsUpTo(PathChars, MaxPathLen)]
    /\ output = <<>>
    /\ pc = "template"
    /\ file = NoFile /\ dirs = {} /\ home = <<>> /\ cfg = NoCfg
    /\ res = NoRes /\ runs = 0

\* buildExecutorCommand(template, ext, scriptPath)
Build ==
    /\ pc = "template"
    /\ output' = buildExecutorCommand(input.template, input.path)
    /\ pc' = "built"
    /\ UNCHANGED <<file, dirs, home, cfg, res, runs, input>>

\* sh -c tokenizes the command line.
Tokenize ==
    /\ pc = "built"
    /\ output.err = ""
    /\ output' = [err |-> "", val |-> output.val, words |-> ShellWords(output.val)]
    /\ pc' = "tokenized"
    /\ UNCHANGED <<file, dirs, home, cfg, res, runs, input>>

NextQuote == Build \/ Tokenize

SpecQuote == InitQuote /\ [][NextQuote]_vars

\* The tokens of the template, the placeholder standing as one character.
TemplateWords == ShellWords(ReplaceAll(input.template, placeholder, <<"PATH">>))

\* The tokens with the literal path in the place of every unquoted
\* placeholder.
WithPath(tokens, path) ==
    [i \in 1..Len(tokens) |->
        IF tokens[i].op THEN tokens[i]
        ELSE Word(ReplaceAll(tokens[i].text, <<"PATH">>, path))]

\* No placeholder of the template stands inside quotes or behind a
\* backslash.
PlaceholdersUnquoted ==
    \A i \in 1..Len(TemplateWords) : "QPATH" \notin Range(TemplateWords[i].text)

Tokenized == pc = "tokenized"

\* C3: quoting safety.  For a template whose placeholders stand outside
\* quotes, the command line tokenizes to the tokens of the template with the
\* literal path in the place of each placeholder: a placeholder that is a
\* word of its own yields exactly one word equal to the path, and no word
\* is split and no operator added.
C3_QuotingSafety ==
    (Tokenized /\ PlaceholdersUnquoted) =>
        /\ output.words = WithPath(TemplateWords, input.path)
        /\ \A i \in 1..Len(TemplateWords) :
              TemplateWords[i] = Word(<<"PATH">>) => output.words[i] = Word(input.path)

\* A path with a single quote in it, substituted for a placeholder that is
\* a word of its own.
C3_Witness ==
    /\ Tokenized /\ PlaceholdersUnquoted
    /\ Len(input.path) = 2 /\ "'" \in Range(input.path)
    /\ \E i \in 1..Len(TemplateWords) : TemplateWords[i] = Word(<<"PATH">>)

\* The tokens with every placeholder taken as unquoted.
Unmarked(tokens) ==
    [i \in 1..Len(tokens) |->
        [tokens[i] EXCEPT !.text =
            [j \in 1..Len(tokens[i].text) |->
                IF tokens[i].text[j] = "QPATH" THEN "PATH" ELSE tokens[i].text[j]]]]

\* C3 as stated: for every template with the placeholder, quoted or not,
\* the command line has the tokens of the template with the literal path in
\* the place of each placeholder.
C3_EveryTemplate ==
    Tokenized => output.words = WithPath(Unmarked(TemplateWords), input.path)

(***************************************************************************)
(* loadConfig on files written by hand: a file is a sequence of lines of   *)
(* LinePool, each ended by a newline.                                      *)
(***************************************************************************)

LinePool ==
    { <<"[","e","x","e","c","u","t","o","r","s","]">>,
      <<"s","h"," ","="," ","\"","z","s","h"," ","{","{","p","a","t","h","}","}","\"">>,
      <<"r","b"," ","="," ","\"","r","u","b","y"," ","{","{","p","a","t","h","}","}","\"">>,
      <<"P","Y"," ","="," ","'","p","'">>,
      <<"[","c","o","m","m","a","n","d","s",".","a","]">>,
      <<"p","a","t","h"," ","="," ","\"","/","p","\"">>,
      <<>>,
      <<"k"," ","="," ","v">>,
      <<"#"," ","c">> }

\* The longest file, in lines.
MaxLines == 3

RECURSIVE FilesUpTo(_)
FilesUpTo(n) ==
    IF n = 0 THEN {<<>>}
    ELSE FilesUpTo(n - 1)
         \cup {t \o l \o <<"\n">> : t \in FilesUpTo(n - 1), l \in LinePool}

InitLoad ==
    /\ input \in FilesUpTo(MaxLines)
    /\ output = <<>>
    /\ pc = "file"
    /\ file = NoFile /\ dirs = {} /\ home = <<>> /\ cfg = NoCfg
    /\ res = NoRes /\ runs = 0

\* loadConfig(path) on the file input.
Load ==
    /\ pc = "file"
    /\ output' = loadConfig(input)
    /\ pc' = "decoded"
    /\ UNCHANGED <<file, dirs, home, cfg, res, runs, input>>

SpecLoad == InitLoad /\ [][Load]_vars

\* The file has been decoded without error.
Decoded == pc = "decoded" /\ output.err = ""

\* The executors the scan has read from the file, before the defaults are
\* merged in.
FromFile == ScanAll(ScanStart, ScanLines(input, 1), 1).Executors

\* The file has a line "[executors]".
HasExecutorsSection ==
    \E i \in 1..Len(ScanLines(input, 1)) :
        TrimSpace(ScanLines(input, 1)[i]) = <<"[">> \o executorsName \o <<"]">>

BuiltIn == {<<"s","h">>, <<"p","y">>, <<"j","s">>}

\* C4: idempotent defaults.  The executors of a decoded file are the keys
\* of the file with the values of the file, and the built-in keys sh, py
\* and js that the file does not define with the built-in templates; for a
\* file without an [executors] section they are exactly the three built-in
\* entries.
C4_Defaults ==
    Decoded =>
        /\ DOMAIN defaultExecutors = BuiltIn
        /\ DOMAIN output.cfg.Executors = DOMAIN FromFile \cup BuiltIn
        /\ \A k \in DOMAIN FromFile : output.cfg.Executors[k] = FromFile[k]
        /\ \A k \in BuiltIn \ DOMAIN FromFile :
              output.cfg.Executors[k] = defaultExecutors[k]
        /\ ~HasExecutorsSection => output.cfg.Executors = defaultExecutors

\* A file that overrides sh and adds rb: both are kept, py and js are
\* filled in.
C4_Witness ==
    /\ Decoded
    /\ DOMAIN FromFile = {<<"s","h">>, <<"r","b">>}
    /\ output.cfg.Executors[<<"s","h">>] # defaultExecutors[<<"s","h">>]
    /\ output.cfg.Executors[<<"p","y">>] = defaultExecutors[<<"p","y">>]

(***************************************************************************)
(* main.go: the argument parser, with flag.FlagSet.Parse as it calls it.   *)
(* An argument is a string; the command line is a sequence of arguments.   *)
(***************************************************************************)

\* The zero value of cliOptions; kind tells which of AddCmd, ListCmd,
\* ExecCmd and ConfigCmd is set, cmd is its value.
ZeroOptions ==
    [ShowVersion |-> FALSE, ConfigName |-> <<>>, Silent |-> FALSE]

\* The flags of the FlagSet of mine, and strconv.ParseBool.
MainBoolFlags == { <<"v">>, <<"v","e","r","s","i","o","n">>, <<"s","i","l","e","n","t">> }
MainStringFlags == { <<"c","o","n","f","i","g","-","f","i","l","e">> }
HelpFlags == { <<"h","e","l","p">>, <<"h">> }
TrueTexts == { <<"1">>, <<"t">>, <<"T">>, <<"T","R","U","E">>, <<"t","r","u","e">>, <<"T","r","u","e">> }
FalseTexts == { <<"0">>, <<"f">>, <<"F">>, <<"F","A","L","S","E">>, <<"f","a","l","s","e">>, <<"F","a","l","s","e">> }

\* flag.Value.Set for the flags of main.
SetFlag(opts, name, value) ==
    IF name = <<"s","i","l","e","n","t">> THEN [opts EXCEPT !.Silent = value]
    ELSE IF name = <<"c","o","n","f","i","g","-","f","i","l","e">> THEN [opts EXCEPT !.ConfigName = value]
    ELSE [opts EXCEPT !.ShowVersion = value]

\* FlagSet.Parse stops with the error err ("flag": a parse error, "help":
\* flag.ErrHelp).
FlagStop(err, opts) == [err |-> err, rest |-> <<>>, opts |-> opts]

\* FlagSet.Parse of args from position i on: the error, the arguments left
\* after the flags, and the options set.
RECURSIVE FlagParse(_, _, _, _, _)
FlagParseOne(args, i, bools, strs, opts, name, hasValue, value) ==
    IF name \notin bools \cup strs
    THEN FlagStop(IF name \in HelpFlags THEN "help" ELSE "flag", opts)
    ELSE IF name \in bools
    THEN IF hasValue /\ value \notin TrueTexts \cup FalseTexts
         THEN FlagStop("flag", opts)
         ELSE FlagParse(args, i + 1, bools, strs,
                        SetFlag(opts, name, IF hasValue THEN value \in TrueTexts ELSE TRUE))
    ELSE IF hasValue
    THEN FlagParse(args, i + 1, bools, strs, SetFlag(opts, name, value))
    ELSE IF i < Len(args)
    THEN FlagParse(args, i + 2, bools, strs, SetFlag(opts, name, args[i + 1]))
    ELSE FlagStop("flag", opts)

\* The flag text after the minus signs is name, with "=" at position eq + 1
\* (eq = 0: no "=").
FlagParseSplit(args, i, bools, strs, opts, name, eq) ==
    FlagParseOne(args, i, bools, strs, opts,
                 IF eq = 0 THEN name ELSE SubSeq(name, 1, eq),
                 eq # 0,
                 IF eq = 0 THEN <<>> ELSE Tail2(name, eq + 2))

FlagParseNamed(args, i, bools, strs, opts, name) ==
    IF name = <<>> THEN FlagStop("flag", opts)
    ELSE IF name[1] \in {"-", "="} THEN FlagStop("flag", opts)
    ELSE FlagParseSplit(args, i, bools, strs, opts, name,
                        Index(Tail2(name, 2), <<"=">>))

FlagParse(args, i, bools, strs, opts) ==
    IF i > Len(args) THEN [err |-> "", rest |-> <<>>, opts |-> opts]
    ELSE IF Len(args[i]) < 2
    THEN [err |-> "", rest |-> Tail2(args, i), opts |-> opts]
    ELSE IF args[i][1] # "-"
    THEN [err |-> "", rest |-> Tail2(args, i), opts |-> opts]
    ELSE IF args[i] = <<"-", "-">>
    THEN [err |-> "", rest |-> Tail2(args, i + 1), opts |-> opts]
    ELSE FlagParseNamed(args, i, bools, strs, opts,
                        IF args[i][2] = "-" THEN Tail2(args[i], 3) ELSE Tail2(args[i], 2))

\* strings.Join(parts, " ") from position i on.
RECURSIVE JoinSpace(_, _)
JoinSpace(parts, i) ==
    IF i > Len(parts) THEN <<>>
    ELSE parts[i] \o (IF i < Len(parts) THEN <<" ">> ELSE <<>>) \o JoinSpace(parts, i + 1)

\* What a parser of main.go returns: an error ("": none, "help", "flag": a
\* flagParseError, "usage": any other error) and the command.
Parsed(err, kind, cmd) == [err |-> err, kind |-> kind, cmd |-> cmd]

NoCommand == [mode |-> "none"]

parseAddFlags(p) ==
    IF p.err # "" THEN Parsed(p.err, "none", NoCommand)
    ELSE IF Len(p.rest) < 3 THEN Parsed("usage", "none", NoCommand)
    ELSE Parsed("", "add",
                [fileName |-> p.rest[1], commandName |-> p.rest[2],
                 description |-> JoinSpace(p.rest, 3)])

parseAddCommand(args) == parseAddFlags(FlagParse(args, 1, {}, {}, ZeroOptions))

parseListFlags(p) ==
    IF p.err # "" THEN Parsed(p.err, "none", NoCommand)
    ELSE IF Len(p.rest) > 0 THEN Parsed("usage", "none", NoCommand)
    ELSE Parsed("", "ls", NoCommand)

parseListCommand(args) == parseListFlags(FlagParse(args, 1, {}, {}, ZeroOptions))

parseExecFlags(p) ==
    IF p.err # "" THEN Parsed(p.err, "none", NoCommand)
    ELSE IF Len(p.rest) # 1 THEN Parsed("usage", "none", NoCommand)
    ELSE Parsed("", "exec", [name |-> p.rest[1]])

parseExecCommand(args) == parseExecFlags(FlagParse(args, 1, {}, {}, ZeroOptions))

ConfigFlags == { <<"-","c","o","n","f","i","g">>, <<"-","-","c","o","n","f","i","g">> }

\* extractConfigCommand when the first -config stands at position i (0: it
\* does not occur).
extractAt(args, i) ==
    IF i = 0 THEN [err |-> "", clean |-> args, cmd |-> NoCommand]
    ELSE IF Len(args) - i = 0
    THEN [err |-> "", clean |-> SubSeq(args, 1, i - 1), cmd |-> [mode |-> "printAll"]]
    ELSE IF Len(args) - i = 1
    THEN [err |-> "", clean |-> SubSeq(args, 1, i - 1),
          cmd |-> [mode |-> "get", key |-> args[i + 1]]]
    ELSE IF Len(args) - i = 2
    THEN [err |-> "", clean |-> SubSeq(args, 1, i - 1),
          cmd |-> [mode |-> "set", key |-> args[i + 1], value |-> args[i + 2]]]
    ELSE [err |-> "usage", clean |-> <<>>, cmd |-> NoCommand]

extractConfigCommand(args) ==
    extractAt(args,
        IF \E i \in 1..Len(args) : args[i] \in ConfigFlags
        THEN CHOOSE i \in 1..Len(args) :
                /\ args[i] \in ConfigFlags
                /\ \A j \in 1..(i - 1) : args[j] \notin ConfigFlags
        ELSE 0)

\* The subcommand named by the first argument after the flags.
parseSubcommand(rest) ==
    IF rest = <<>> THEN Parsed("", "none", NoCommand)
    ELSE IF rest[1] = <<"a","d","d">> THEN parseAddCommand(Tail2(rest, 2))
    ELSE IF rest[1] = <<"l","s">> THEN parseListCommand(Tail2(rest, 2))
    ELSE IF rest[1] = <<"e","x","e","c">> THEN parseExecCommand(Tail2(rest, 2))
    ELSE Parsed("usage", "none", NoCommand)

\* The end of parseArgs: the options, the subcommand and the -config command
\* together.
parseCombined(opts, sub, configCmd) ==
    IF sub.err # "" THEN [err |-> sub.err, opts |-> opts, kind |-> "none", cmd |-> NoCommand]
    ELSE IF configCmd.mode # "none" /\ sub.kind # "none"
    THEN [err |-> "usage", opts |-> opts, kind |-> "none", cmd |-> NoCommand]
    ELSE IF configCmd.mode # "none"
    THEN [err |-> "", opts |-> opts, kind |-> "config", cmd |-> configCmd]
    ELSE [err |-> "", opts |-> opts, kind |-> sub.kind, cmd |-> sub.cmd]

parseFlagged(p, configCmd) ==
    IF p.err # ""
    THEN [err |-> p.err, opts |-> p.opts, kind |-> "none", cmd |-> NoCommand]
    ELSE parseCombined(p.opts, parseSubcommand(p.rest), configCmd)

parseExtracted(ex) ==
    IF ex.err # ""
    THEN [err |-> ex.err, opts |-> ZeroOptions, kind |-> "none", cmd |-> NoCommand]
    ELSE parseFlagged(FlagParse(ex.clean, 1, MainBoolFlags, MainStringFlags, ZeroOptions),
                      ex.cmd)

parseArgs(args) == parseExtracted(extractConfigCommand(args))

(***************************************************************************)
(* main.go: main, from the command line to the exit code.                  *)
(***************************************************************************)

\* The process ends with the exit code exit; err is the error it has logged
\* ("" for none).
Ended(exit, err, c, f, d) ==
    [exit |-> exit, err |-> err, cfg |-> c, file |-> f, dirs |-> d]

EndedAdd(r) == Ended(IF r.err # "" THEN 1 ELSE 0, r.err, r.cfg, r.file, r.dirs)

EndedExec(r, c, f, d) == Ended(IF r.err # "" THEN 1 ELSE 0, r.err, c, f, d)

EndedConfig(r) ==
    Ended(r.exit, IF r.exit # 0 THEN "config" ELSE "", r.cfg, r.file, r.dirs)

\* main from the dispatch on.
mainDispatch(parsed, path, c, f, d, h, io, status) ==
    CASE parsed.kind = "add" ->
            EndedAdd(handleAddCommand(parsed.cmd, c, path, f, d, h, io))
      [] parsed.kind = "exec" ->
            EndedExec(handleExecCommand(parsed.cmd.name, c, d, h, status), c, f, d)
      [] parsed.kind = "config" ->
            EndedConfig(handleConfigCommand(
                parsed.cmd.mode,
                IF parsed.cmd.mode = "printAll" THEN <<>> ELSE parsed.cmd.key,
                IF parsed.cmd.mode = "set" THEN parsed.cmd.value ELSE <<>>,
                c, path, f, d, io))
      [] OTHER -> Ended(0, "", c, f, d)

\* main after ensureConfig returned e.
mainEnsured(parsed, path, h, io, status, e) ==
    IF e.err # "" THEN Ended(1, e.err, NoCfg, e.file, e.dirs)
    ELSE mainDispatch(parsed, path, e.cfg, e.file, e.dirs, h, io, status)

\* main after userConfigDir has made the application's directory.
mainResolved(parsed, path, f, d, h, io, status, mk) ==
    IF ~mk.ok THEN Ended(1, "config dir", NoCfg, f, d)
    ELSE mainEnsured(parsed, path, h, io, status, ensureConfig(path, f, mk.dirs, io))

\* main after parseArgs returned parsed: f is the content of the config
\* file the command line names.
main(parsed, f, d, h, io, status) ==
    IF parsed.err = "help" THEN Ended(0, "", NoCfg, f, d)
    ELSE IF parsed.err = "flag" THEN Ended(0, "flag", NoCfg, f, d)
    ELSE IF parsed.err # "" THEN Ended(2, parsed.err, NoCfg, f, d)
    ELSE IF parsed.opts.ShowVersion THEN Ended(0, "", NoCfg, f, d)
    ELSE mainResolved(parsed, resolveConfigPath(parsed.opts.ConfigName),
                      f, d, h, io, status, MkdirAll(appConfigDir, d))

\* The arguments of the command lines and the longest command line.
ArgPool ==
    { <<"a","d","d">>, <<"l","s">>, <<"e","x","e","c">>, <<"a">>, <<"d",".","s","h">>, <<"-","c","o","n","f","i","g">>, <<"-","b","o","g","u","s">>, <<"-","v">>,
      <<"-","v","=","x">>, <<"-","c","o","n","f","i","g","-","f","i","l","e">> }
MaxArgs == 4

RECURSIVE ArgsUpTo(_)
ArgsUpTo(n) ==
    IF n = 0 THEN {<<>>}
    ELSE ArgsUpTo(n - 1) \cup {Append(t, a) : t \in ArgsUpTo(n - 1), a \in ArgPool}

\* A config file with the command a for the script d.sh.
ArgsCfg ==
    [Scalars |-> (commandsFolderKey :> <<"/","x","/","m","i","n","e","/","c","o","m","m","a","n","d","s">>),
     Executors |-> defaultExecutors,
     Commands |-> (<<"a">> :> [Path |-> <<"/","x","/","m","i","n","e","/","c","o","m","m","a","n","d","s","/","d",".","s","h">>, Description |-> <<"D">>])]

InitArgs ==
    /\ input \in ArgsUpTo(MaxArgs)
    /\ output = <<>>
    /\ pc = "argv"
    /\ file \in {NoFile, encodeConfig(ArgsCfg)}
    /\ dirs = InitDirs
    /\ home = HomeDir
    /\ cfg = NoCfg
    /\ res = NoRes
    /\ runs = 0

\* opts, err := parseArgs(os.Args[1:])
ParseArgs ==
    /\ pc = "argv"
    /\ output' = parseArgs(input)
    /\ pc' = "parsed"
    /\ UNCHANGED <<file, dirs, home, cfg, res, runs, input>>

\* The rest of main.
Main ==
    /\ pc = "parsed"
    /\ \E io \in IoOutcomes, status \in ExitStatuses :
         \E r \in {main(output, file, dirs, home, io, status)} :
             /\ file' = r.file
             /\ dirs' = r.dirs
             /\ cfg' = r.cfg
             /\ res' = [NoRes EXCEPT !.op = "main", !.err = r.err, !.exit = r.exit,
                                     !.file0 = file]
    /\ pc' = "exited"
    /\ UNCHANGED <<home, runs, input, output>>

NextArgs == ParseArgs \/ Main

SpecArgs == InitArgs /\ [][NextArgs]_vars

MainEnded == pc = "exited" /\ res.op = "main"

\* parseArgs has returned an error other than flag.ErrHelp.
ParseFailed == output.err \notin {"", "help"}

\* C8: exit codes.  An invocation whose arguments do not parse ends with
\* exit code 2, one that fails after parsing with exit code 1, and only an
\* invocation without error with exit code 0.
C8_ExitCodes ==
    MainEnded =>
        /\ ParseFailed => res.exit = 2
        /\ (~ParseFailed /\ res.err # "") => res.exit = 1
        /\ res.exit = 0 => (~ParseFailed /\ res.err = "")

\* An invocation with an unknown flag.
C8_Witness == MainEnded /\ output.err = "flag" /\ res.exit = 0

(***************************************************************************)
(* resolveConfigPath on the names -config-file can give.                   *)
(***************************************************************************)

\* The characters of the names and the longest name.
NameChars == {"a", ".", "/", "\\"}
MaxNameLen == 3

InitPath ==
    /\ input \in StringsUpTo(NameChars, MaxNameLen)
    /\ output = <<>>
    /\ pc = "name"
    /\ file = NoFile /\ dirs = {<<"/">>, XdgConfigHome} /\ home = HomeDir
    /\ cfg = NoCfg /\ res = NoRes /\ runs = 0

\* configPath, err := resolveConfigPath(opts.ConfigName); userConfigDir
\* makes the application's config directory.
Resolve ==
    /\ pc = "name"
    /\ MkdirAll(appConfigDir, dirs).ok
    /\ dirs' = MkdirAll(appConfigDir, dirs).dirs
    /\ output' = resolveConfigPath(input)
    /\ pc' = "resolved"
    /\ UNCHANGED <<file, home, cfg, res, runs, input>>

SpecPath == InitPath /\ [][Resolve]_vars

Resolved == pc = "resolved"

\* The name is a path: absolute, or relative with a separator.
IsPathName(name) == "/" \in Range(name)

\* C9: config file location.  Without a name the file is config.toml in
\* the application's config directory; a bare name without an extension
\* gets ".toml" and lies in that directory; an absolute path is used as it
\* is given, and a relative path names the file it names from the working
\* directory.
C9_Location ==
    Resolved =>
        /\ input = <<>> => output = <<"/","x","/","m","i","n","e","/","c","o","n","f","i","g",".","t","o","m","l">>
        /\ (input # <<>> /\ ~IsPathName(input) /\ "." \notin Range(input)) =>
                output = <<"/","x","/","m","i","n","e","/">> \o input \o <<".","t","o","m","l">>
        /\ (IsPathName(input) /\ IsAbs(input)) => output = input
        /\ (IsPathName(input) /\ ~IsAbs(input)) => Abs(output) = Abs(input)

\* A relative path is resolved below the application's config directory.
C9_Witness ==
    /\ Resolved
    /\ IsPathName(input) /\ ~IsAbs(input)
    /\ HasPrefix(output, <<"/","x","/","m","i","n","e","/">>)

(***************************************************************************)
(* Further properties of the invocations                                   *)
(***************************************************************************)

AddEnded == pc = "exited" /\ res.op = "add"

\* commands_folder was set to a non-empty value when add was called.
FolderConfigured ==
    /\ commandsFolderKey \in DOMAIN res.cfg0.Scalars
    /\ res.cfg0.Scalars[commandsFolderKey] # <<>>

\* The commands folder resolves and its directory can be made, and the file
\* name of add resolves.
ScriptLocated ==
    /\ FolderConfigured
    /\ resolveUserPath(res.cfg0.Scalars[commandsFolderKey], home).err = ""
    /\ MkdirAll(resolveUserPath(res.cfg0.Scalars[commandsFolderKey], home).val, dirs).ok
    /\ isSimpleCommandName(res.fileName) \/ resolveUserPath(res.fileName, home).err = ""

\* C11: order of add's checks.  Without commands_folder add fails with
\* "commands_folder is not configured"; with a missing script file it fails
\* with "does not exist" and with a directory with "is a directory", also
\* when the alias is registered; "already exists" is reported only for a
\* script that is a regular file.
C11_AddOrder ==
    AddEnded =>
        /\ ~FolderConfigured => res.err = "commands_folder is not configured"
        /\ (ScriptLocated /\ Stat(AddedScript, dirs) = "absent") =>
                res.err = "does not exist"
        /\ (ScriptLocated /\ Stat(AddedScript, dirs) = "dir") =>
                res.err = "is a directory"
        /\ res.err = "already exists" =>
                /\ ScriptLocated
                /\ Stat(AddedScript, dirs) = "file"
                /\ res.name \in DOMAIN res.cfg0.Commands

\* An add of a missing script under an alias that is registered.
C11_Witness ==
    /\ AddEnded
    /\ ScriptLocated /\ Stat(AddedScript, dirs) = "absent"
    /\ res.name \in DOMAIN res.cfg0.Commands
    /\ res.err = "does not exist"

\* The file differs from the file that the last step of the invocation found.
FileChanged == res.op # "none" /\ file # res.file0

\* The steps that leave the file as it is: the load of an existing file, ls,
\* exec, -config and -config key.
ReadOnlyStep ==
    \/ res.op = "load" /\ res.file0 # NoFile
    \/ res.op \in {"ls", "exec", "printAll", "get"}

\* C12: lazy defaults.  The load of an existing file, ls, exec, -config and
\* -config key leave the file as it is, also when built-in executors were
\* merged into the model; the file changes only when it is first created, on
\* an add that reached its write (a successful one, or one whose write failed
\* and left the file empty), or on -config key value.
C12_FileChanges ==
    /\ ReadOnlyStep => file = res.file0
    /\ FileChanged =>
        \/ res.op = "load" /\ res.file0 = NoFile
        \/ res.op = "add" /\ res.err = ""
        \/ res.op = "add" /\ res.err = "unable to update config" /\ file = <<>>
        \/ res.op = "set"

\* An existing file was loaded, the model holds built-in executors that the
\* file does not, and the file is as it was.
C12_Witness ==
    /\ pc = "loaded" /\ res.op = "load" /\ res.file0 # NoFile
    /\ file = res.file0
    /\ ~Contains(file, <<"p", "y", " ", "=">>)
    /\ <<"p", "y">> \in DOMAIN cfg.Executors

\* C12 as stated: the file changes only on first creation, on a successful
\* add, or on -config key value.
C12_OnlySuccessfulAdd ==
    FileChanged =>
        \/ res.op = "load" /\ res.file0 = NoFile
        \/ res.op = "add" /\ res.err = ""
        \/ res.op = "set"

IsHeader(l) == HasPrefix(l, <<"[">>) /\ HasSuffix(l, <<"]">>)

SectionOf(l) == TrimSuffix(TrimPrefix(l, <<"[">>), <<"]">>)

\* A line that is neither blank nor a comment nor a section header.
IsEntry(l) == l # <<>> /\ ~HasPrefix(l, <<"#">>) /\ ~IsHeader(l)

EntryKey(l) == TrimSpace(SubSeq(l, 1, Index(l, <<"=">>) - 1))

EntryValue(l) == TrimSpace(Tail2(l, Index(l, <<"=">>) + 1))

\* An unknown section or a commands section with an empty alias.
BadHeader(l) ==
    /\ IsHeader(l)
    /\ SectionOf(l) # executorsName
    /\ ~HasPrefix(SectionOf(l), commandsPrefix) \/ SectionOf(l) = commandsPrefix

\* A line without "=", with an empty key, or with an empty or badly escaped
\* value.
BadEntry(l) ==
    /\ IsEntry(l)
    /\ \/ Index(l, <<"=">>) = 0
       \/ EntryKey(l) = <<>>
       \/ ~parseTomlValue(EntryValue(l)).ok

\* Line i of lines and the lines before it up to the nearest header hold no
\* blank line, and that header opens a commands section.
RECURSIVE InCommands(_, _)
InCommands(lines, i) ==
    IF i = 0 \/ TrimSpace(lines[i]) = <<>> THEN FALSE
    ELSE IF IsHeader(TrimSpace(lines[i]))
    THEN HasPrefix(SectionOf(TrimSpace(lines[i])), commandsPrefix)
    ELSE InCommands(lines, i - 1)

\* A key other than path and description inside a commands section.
UnknownKey(lines, i) ==
    /\ IsEntry(TrimSpace(lines[i]))
    /\ Index(TrimSpace(lines[i]), <<"=">>) # 0
    /\ EntryKey(TrimSpace(lines[i])) \notin {pathKey, descriptionKey}
    /\ InCommands(lines, i - 1)

MalformedLine(lines, i) ==
    \/ BadHeader(TrimSpace(lines[i]))
    \/ BadEntry(TrimSpace(lines[i]))
    \/ UnknownKey(lines, i)

\* The file has a malformed line.
Malformed(text) ==
    /\ text # NoFile
    /\ \E i \in 1..Len(ScanLines(text, 1)) : MalformedLine(ScanLines(text, 1), i)

LoadEnded == res.op = "load"

\* C13: a decode error is fatal and never partially applied.  The load of a
\* file with a malformed line returns an error and no model, the invocation
\* ends without an operation, and the file is as it was.
C13_DecodeFatal ==
    (LoadEnded /\ Malformed(res.file0)) =>
        /\ res.err # "" /\ res.exit = 1
        /\ cfg = NoCfg
        /\ pc = "exited"
        /\ file = res.file0

\* The load of a file whose last line is malformed and whose lines before it
\* define commands.
C13_Witness ==
    /\ LoadEnded /\ Malformed(res.file0)
    /\ ~MalformedLine(ScanLines(res.file0, 1), 1)
    /\ \E n \in {<<"t">>} :
          Contains(res.file0, <<"[">> \o commandsPrefix \o n \o <<"]">>)
    /\ res.err # "" /\ cfg = NoCfg /\ file = res.file0

(***************************************************************************)
(* resolveUserPath on bounded inputs                                       *)
(***************************************************************************)

ResolveChars == {"~", "/", "a", "$", "."}

ResolveNames ==
    { <<"$","H","O","M","E">>,
      <<"$","H","O","M","E","/","a">>,
      <<"$","{","H","O","M","E","}","~">>,
      <<"~","/","$","H","O","M","E">>,
      <<"~","$","H","O","M","E">>,
      <<"a","/","~","/","a">> }

\* The longest enumerated input of resolveUserPath.
MaxResolveLen == 3

InitResolve ==
    /\ input \in StringsUpTo(ResolveChars, MaxResolveLen) \cup ResolveNames
    /\ home \in Homes
    /\ output = <<>>
    /\ pc = "raw"
    /\ file = NoFile /\ dirs = {} /\ cfg = NoCfg /\ res = NoRes /\ runs = 0

\* resolveUserPath(input)
ResolvePath ==
    /\ pc = "raw"
    /\ output' = resolveUserPath(input, home)
    /\ pc' = "absolute"
    /\ UNCHANGED <<file, dirs, home, cfg, res, runs, input>>

SpecResolve == InitResolve /\ [][ResolvePath]_vars

\* The input after the expansion of the environment variables.
Expanded == ExpandEnv(input, home)

\* The expanded input is "~" or starts with "~/".
NeedsHome == Expanded = <<"~">> \/ HasPrefix(Expanded, <<"~", "/">>)

ResolveEnded == pc = "absolute"

\* What resolveUserPath does for every input: the part of C14 that holds.
ResolveOutcome ==
    ResolveEnded =>
        /\ input = <<>> => output.err = "path is empty"
        /\ (input # <<>> /\ NeedsHome /\ home # <<>>) =>
              output = [err |-> "", val |-> Clean(home \o Tail2(Expanded, 2))]
        /\ (input # <<>> /\ NeedsHome /\ home = <<>>) =>
              output.err = "cannot expand ~"
        /\ (input # <<>> /\ ~NeedsHome /\ ~(home = <<>> /\ HasPrefix(Expanded, <<"~">>))) =>
              output = [err |-> "", val |-> Abs(Expanded)]
        /\ output.err = "" => IsAbs(output.val) /\ Clean(output.val) = output.val

\* C14: Resolve.  Empty input fails with "path is empty"; a leading "~" of
\* the expanded input is replaced by the home directory when it is the whole
\* string or is followed by "/", and every other "~" is left untouched;
\* Resolve fails for want of a home directory only when such a replacement
\* was required; every successful result is an absolute, cleaned path.
C14_Resolve ==
    ResolveEnded =>
        /\ input = <<>> => output.err = "path is empty"
        /\ (input # <<>> /\ NeedsHome /\ home # <<>>) =>
              output = [err |-> "", val |-> Clean(home \o Tail2(Expanded, 2))]
        /\ (input # <<>> /\ ~NeedsHome) =>
              output = [err |-> "", val |-> Abs(Expanded)]
        /\ output.err = "cannot expand ~" => (NeedsHome /\ home = <<>>)
        /\ output.err = "" => IsAbs(output.val) /\ Clean(output.val) = output.val

\* "~a" without a home directory: nothing is to be replaced, and Resolve
\* fails.
C14_Witness ==
    /\ ResolveEnded
    /\ input = <<"~", "a">> /\ home = <<>>
    /\ ~NeedsHome
    /\ output.err = "cannot expand ~"

(***************************************************************************)
(* collapseHomePath on bounded absolute paths                              *)
(***************************************************************************)

CollapseChars == {"/", "h", "a", "."}

CollapseNames ==
    { <<"/","a","/","$","H","O","M","E">>,
      <<"/","$","H","O","M","E","/","a">> }

CollapseHomes == {<<"/","h">>, <<"/","h","/">>, <<"/","h","/","a">>, <<>>}

\* The longest enumerated path below the root, in characters.
MaxCollapseLen == 4

InitCollapse ==
    /\ input \in {<<"/">> \o s : s \in StringsUpTo(CollapseChars, MaxCollapseLen)}
                    \cup CollapseNames
    /\ home \in CollapseHomes
    /\ output = <<>>
    /\ pc = "absolute"
    /\ file = NoFile /\ dirs = {} /\ cfg = NoCfg /\ res = NoRes /\ runs = 0

\* collapseHomePath(input)
Collapse ==
    /\ pc = "absolute"
    /\ output' = collapseHomePath(input, home)
    /\ pc' = "collapsed"
    /\ UNCHANGED <<file, dirs, home, cfg, res, runs, input>>

SpecCollapse == InitCollapse /\ [][Collapse]_vars

Collapsed == pc = "collapsed"

\* p is h, a separator and a non-empty suffix.
StrictlyInside(p, h) == HasPrefix(p, h \o <<"/">>) /\ Len(p) > Len(h) + 1

Suffix(p, h) == Tail2(p, Len(h) + 2)

\* The claim of C15 for the path p and the home directory h.
CollapseOf(p, h, out) ==
    /\ p = h => out = HomeShorthand
    /\ StrictlyInside(p, h) => out = HomeShorthand \o <<"/">> \o Suffix(p, h)
    /\ (p # h /\ ~StrictlyInside(p, h)) => out = input

\* C15: Collapse, on the cleaned path and the cleaned home directory.  With
\* p and h the cleaned forms of the path and of the home directory, the
\* result is $HOME when p is h, $HOME/<suffix> when p is h, a separator and
\* a suffix, and the path as it was given otherwise; a path that shares h
\* only as a prefix of its text or holds h or $HOME elsewhere is unchanged.
\* For a path and a home directory that are clean, these are the path and
\* the home directory themselves.  Without a home directory the path is
\* unchanged.
C15_Collapse ==
    Collapsed =>
        /\ home # <<>> => CollapseOf(Clean(input), Clean(home), output)
        /\ (home # <<>> /\ Clean(input) = input /\ Clean(home) = home) =>
              CollapseOf(input, home, output)
        /\ home = <<>> => output = input

\* A clean path below the home directory, and one that shares the home
\* directory as a prefix of its text.
C15_Witness ==
    /\ Collapsed
    /\ home = <<"/","h">>
    /\ \/ input = <<"/","h","/","a">> /\ output = <<"$","H","O","M","E","/","a">>
       \/ input = <<"/","h","a","/","a">> /\ output = input

\* C15 as stated: for every absolute path and every home directory, clean or
\* not.
C15_EveryPath ==
    (Collapsed /\ home # <<>>) => CollapseOf(input, home, output)

(***************************************************************************)
(* Two invocations on one config file                                      *)
(***************************************************************************)

\* The claim is about two invocations.
Invocations == {1, 2}

RaceAdds ==
    [fileName : {<<"d",".","s","h">>, <<"g",".","s","h">>},
     commandName : {<<"a">>, <<"b">>},
     description : {<<"D">>}]

RaceKeys == {<<"k">>}
RaceValues == {<<"v">>, <<"/","w","/","n">>}

\* os.WriteFile writes data at offset 0 of the file it has opened; what the
\* file holds beyond the data stays.
Overwrite(old, data) == data \o Tail2(old, Len(data) + 1)

\* pc, cfg and res are per invocation; input holds the bytes an invocation is
\* about to write, output the order of the opens and writes.
InitRace ==
    /\ file \in {encodeConfig(UserCfg), encodeConfig(BareCfg)}
    /\ dirs = InitDirs
    /\ home = HomeDir
    /\ cfg = [p \in Invocations |-> NoCfg]
    /\ pc = [p \in Invocations |-> "idle"]
    /\ res = [p \in Invocations |-> NoRes]
    /\ input = [p \in Invocations |-> <<>>]
    /\ output = <<>>
    /\ runs = 0

\* main up to the dispatch, in invocation p.
RaceLoad(p) ==
    /\ pc[p] = "idle"
    /\ \E mk \in {MkdirAll(appConfigDir, dirs)} :
         /\ mk.ok
         /\ \E e \in {ensureConfig(ConfigPath, file, mk.dirs, "ok")} :
             /\ file' = e.file
             /\ dirs' = e.dirs
             /\ cfg' = [cfg EXCEPT ![p] = e.cfg]
             /\ pc' = [pc EXCEPT ![p] = IF e.err = "" THEN "loaded" ELSE "exited"]
             /\ res' = [res EXCEPT ![p] = [NoRes EXCEPT !.op = "load", !.err = e.err,
                                                       !.exit = IF e.err = "" THEN 0 ELSE 1]]
    /\ UNCHANGED <<home, runs, input, output>>

\* handleAddCommand in invocation p, up to the os.WriteFile of writeConfig.
RaceAdd(p) ==
    /\ pc[p] = "loaded"
    /\ \E cmd \in RaceAdds :
         \E r \in {handleAddCommand(cmd, cfg[p], ConfigPath, file, dirs, home, "ok")} :
             /\ dirs' = r.dirs
             /\ cfg' = [cfg EXCEPT ![p] = r.cfg]
             /\ input' = [input EXCEPT ![p] = IF r.err = "" THEN r.file ELSE <<>>]
             /\ pc' = [pc EXCEPT ![p] = IF r.err = "" THEN "saving" ELSE "exited"]
             /\ res' = [res EXCEPT ![p] = [NoRes EXCEPT !.op = "add", !.err = r.err,
                                                       !.exit = IF r.err = "" THEN 0 ELSE 1,
                                                       !.name = cmd.commandName]]
    /\ UNCHANGED <<file, home, runs, output>>

\* handleConfigCommand for -config key value in invocation p, up to the
\* os.WriteFile of writeConfig.
RaceSet(p) ==
    /\ pc[p] = "loaded"
    /\ \E key \in RaceKeys, value \in RaceValues :
         \E r \in {handleConfigCommand("set", key, value, cfg[p], ConfigPath,
                                       file, dirs, "ok")} :
             /\ dirs' = r.dirs
             /\ cfg' = [cfg EXCEPT ![p] = r.cfg]
             /\ input' = [input EXCEPT ![p] = r.file]
             /\ pc' = [pc EXCEPT ![p] = "saving"]
             /\ res' = [res EXCEPT ![p] = [NoRes EXCEPT !.op = "set", !.exit = r.exit,
                                                       !.key = key, !.value = value]]
    /\ UNCHANGED <<file, home, runs, output>>

\* os.WriteFile opens the file with O_TRUNC.
RaceOpen(p) ==
    /\ pc[p] = "saving"
    /\ file' = <<>>
    /\ pc' = [pc EXCEPT ![p] = "writing"]
    /\ output' = Append(output, [p |-> p, step |-> "open"])
    /\ UNCHANGED <<dirs, home, cfg, res, runs, input>>

\* os.WriteFile writes the encoded model and closes the file; the handler
\* returns.
RaceWrite(p) ==
    /\ pc[p] = "writing"
    /\ file' = Overwrite(file, input[p])
    /\ pc' = [pc EXCEPT ![p] = "exited"]
    /\ output' = Append(output, [p |-> p, step |-> "write"])
    /\ UNCHANGED <<dirs, home, cfg, res, runs, input>>

NextRace ==
    \E p \in Invocations :
        RaceLoad(p) \/ RaceAdd(p) \/ RaceSet(p) \/ RaceOpen(p) \/ RaceWrite(p)

SpecRace == InitRace /\ [][NextRace]_vars

AllExited == \A p \in Invocations : pc[p] = "exited"

\* Both invocations have saved.
BothSaved == AllExited /\ Len(output) = 4

\* The invocation whose write came last.
LastWriter == output[Len(output)].p

\* Each invocation opened the file only after the other had written.
SavesApart == output[1].p = output[2].p

\* What holds of two invocations: when their saves do not overlap, the file
\* is the complete model of the last writer.
RaceOutcome == (BothSaved /\ SavesApart) => file = encodeConfig(cfg[LastWriter])

\* C16: concurrent invocations on one config file.  When both invocations
\* have saved, the file is the complete model written by the invocation that
\* wrote last.
C16_LastWriterWins == BothSaved => file = encodeConfig(cfg[LastWriter])

\* Both invocations opened the file before either wrote: the file is the
\* model of the last writer followed by the end of the longer model of the
\* other, and neither invocation reports an error.
C16_Witness ==
    /\ BothSaved /\ ~SavesApart
    /\ \A p \in Invocations : res[p].exit = 0 /\ res[p].err = ""
    /\ file # encodeConfig(cfg[LastWriter])
    /\ HasPrefix(file, encodeConfig(cfg[LastWriter]))

\* The lost update: the saves do not overlap, an add has succeeded in the
\* invocation that wrote first, and the final file does not hold its alias.
LostUpdate ==
    /\ BothSaved /\ SavesApart
    /\ \E p \in Invocations :
          /\ p # LastWriter /\ res[p].op = "add" /\ res[p].err = ""
          /\ res[p].name \notin DOMAIN loadConfig(file).cfg.Commands
    /\ \A p \in Invocations : res[p].exit = 0 /\ res[p].err = ""

(***************************************************************************)
(* Section scoping and executor keys of loadConfig                         *)
(***************************************************************************)

InputLines == ScanLines(input, 1)

\* The section that is open after line i: the name of the nearest header at
\* or before line i when no blank line lies between; <<>> when none is open.
RECURSIVE SectionAt(_, _)
SectionAt(lines, i) ==
    IF i = 0 \/ TrimSpace(lines[i]) = <<>> THEN <<>>
    ELSE IF IsHeader(TrimSpace(lines[i])) THEN SectionOf(TrimSpace(lines[i]))
    ELSE SectionAt(lines, i - 1)

\* The "key = value" lines that stand in the section sec.
LinesIn(lines, sec) ==
    {i \in 1..Len(lines) :
        IsEntry(TrimSpace(lines[i])) /\ SectionAt(lines, i - 1) = sec}

KeyAt(lines, i) == EntryKey(TrimSpace(lines[i]))

ValueAt(lines, i) == parseTomlValue(EntryValue(TrimSpace(lines[i]))).val

\* The value of the last line among the lines at that assigns key.
LastValue(lines, at, key) ==
    ValueAt(lines, CHOOSE i \in at :
                      /\ KeyAt(lines, i) = key
                      /\ \A j \in at : KeyAt(lines, j) = key => j <= i)

\* The field of a command: the value of the last line of its sections that
\* assigns key, and the empty string when there is none.
FieldOf(lines, at, key) ==
    IF \E i \in at : KeyAt(lines, i) = key THEN LastValue(lines, at, key)
    ELSE <<>>

\* The aliases of the "[commands.alias]" lines.
SectionAliases(lines) ==
    {TrimPrefix(SectionOf(TrimSpace(lines[i])), commandsPrefix) :
        i \in {j \in 1..Len(lines) :
                  /\ IsHeader(TrimSpace(lines[j]))
                  /\ HasPrefix(SectionOf(TrimSpace(lines[j])), commandsPrefix)}}

\* C17: section scoping in Decode.  A "key = value" line belongs to the
\* nearest section header before it when no blank line and no other header
\* lies between, comment lines notwithstanding; every other "key = value"
\* line is a top-level scalar, a path, description or executor line after a
\* blank line included.
C17_Scoping ==
    Decoded =>
        /\ DOMAIN output.cfg.Scalars =
              {KeyAt(InputLines, i) : i \in LinesIn(InputLines, <<>>)}
        /\ \A k \in DOMAIN output.cfg.Scalars :
              output.cfg.Scalars[k] =
                  LastValue(InputLines, LinesIn(InputLines, <<>>), k)
        /\ DOMAIN output.cfg.Commands = SectionAliases(InputLines)
        /\ \A a \in DOMAIN output.cfg.Commands :
              output.cfg.Commands[a] =
                  [Path |-> FieldOf(InputLines,
                                    LinesIn(InputLines, commandsPrefix \o a), pathKey),
                   Description |-> FieldOf(InputLines,
                                    LinesIn(InputLines, commandsPrefix \o a),
                                    descriptionKey)]
        /\ DOMAIN FromFile =
              {ToLower(KeyAt(InputLines, i)) : i \in LinesIn(InputLines, executorsName)}

\* "[commands.a]", a blank line, and a path line: the path is a scalar and
\* the command has no path.
C17_Witness ==
    /\ Decoded
    /\ Len(InputLines) = 3
    /\ TrimSpace(InputLines[1]) = <<"[">> \o commandsPrefix \o <<"a", "]">>
    /\ InputLines[2] = <<>>
    /\ KeyAt(InputLines, 3) = pathKey
    /\ pathKey \in DOMAIN output.cfg.Scalars
    /\ output.cfg.Commands[<<"a">>].Path = <<>>

\* The file has been loaded and nothing else has happened in the invocation.
JustLoaded == pc = "loaded" /\ res.op = "load"

\* The lines of the [executors] sections of the file.
ExecutorLines == LinesIn(ScanLines(file, 1), executorsName)

\* The value of the last executor line of the file whose key is k in
\* lowercase.
ExecutorOfFile(k) ==
    ValueAt(ScanLines(file, 1),
            CHOOSE i \in ExecutorLines :
                /\ ToLower(KeyAt(ScanLines(file, 1), i)) = k
                /\ \A j \in ExecutorLines :
                      ToLower(KeyAt(ScanLines(file, 1), j)) = k => j <= i)

\* C18: executor extensions are case-insensitive.  Every executor key of a
\* loaded model is lowercase; an executor line of the file defines the entry
\* of its lowercased key, a built-in one included; exec looks up the
\* lowercased extension of the script and starts the command of that entry.
C18_CaseInsensitive ==
    /\ pc = "loaded" => \A k \in DOMAIN cfg.Executors : ToLower(k) = k
    /\ JustLoaded =>
          \A i \in ExecutorLines :
              /\ ToLower(KeyAt(ScanLines(file, 1), i)) \in DOMAIN cfg.Executors
              /\ cfg.Executors[ToLower(KeyAt(ScanLines(file, 1), i))] =
                    ExecutorOfFile(ToLower(KeyAt(ScanLines(file, 1), i)))
    /\ (ExecEnded /\ res.launched # NotLaunched) =>
          res.launched =
              buildExecutorCommand(cfg.Executors[ExecExt], ExecScript.val).val

\* The file defines SH, the script is /h/t.SH, and exec starts the command
\* of the file's entry in place of the built-in sh.
C18_Witness ==
    /\ ExecEnded /\ res.launched # NotLaunched
    /\ file = UpperFile
    /\ Ext(ExecScript.val) = <<".", "S", "H">>
    /\ cfg.Executors[<<"s", "h">>] # defaultExecutors[<<"s", "h">>]
    /\ res.launched =
          buildExecutorCommand(<<"z","s","h"," ">> \o placeholder,
                               <<"/","h","/","t",".","S","H">>).val

\* The header of a commands section without alias.
EmptyAliasSection == <<"[">> \o commandsPrefix \o <<"]">>

\* C19: every alias of the catalog is a non-empty string.  An add with an
\* empty alias is rejected and leaves the catalog and the file as they were,
\* and the file of a successful add has no "[commands.]" section and loads
\* again.
C19_NonEmptyAlias ==
    AddEnded =>
        /\ <<>> \notin DOMAIN cfg.Commands
        /\ res.name = <<>> =>
              (res.err # "" /\ cfg = res.cfg0 /\ file = res.file0)
        /\ res.err = "" =>
              (~Contains(file, EmptyAliasSection) /\ loadConfig(file).err = "")

\* mine add d.sh "" D succeeds: the catalog has the empty alias, the file
\* has a "[commands.]" section, and loadConfig rejects the file.
C19_Witness ==
    /\ AddEnded
    /\ res.name = <<>> /\ res.err = "" /\ res.exit = 0
    /\ <<>> \in DOMAIN cfg.Commands
    /\ Contains(file, EmptyAliasSection)
    /\ loadConfig(file).err = "invalid commands section"

\* What exec obtains from the path stored by the add.
Reresolved == resolveUserPath(cfg.Commands[res.name].Path, home)

\* C20: add/exec path consistency.  After a successful add, the stored path
\* resolves, in the same environment, to the absolute path of the script
\* that the add has checked.
C20_SamePath ==
    AddSucceeded => (Reresolved.err = "" /\ Reresolved.val = AddedScript)

\* mine add 'a$b.sh' a D: the add checks and stores
\* /x/mine/commands/a$b.sh, and exec resolves the stored path to
\* /x/mine/commands/a.sh.
C20_Witness ==
    /\ AddSucceeded
    /\ res.fileName = <<"a","$","b",".","s","h">>
    /\ AddedScript = <<"/","x","/","m","i","n","e","/","c","o","m","m","a","n","d","s","/","a","$","b",".","s","h">>
    /\ cfg.Commands[res.name].Path = AddedScript
    /\ Reresolved.val = <<"/","x","/","m","i","n","e","/","c","o","m","m","a","n","d","s","/","a",".","s","h">>

\* The adds whose file name is not a bare name with a "$": for them the
\* stored path resolves to the script.
SamePathOtherwise ==
    (AddSucceeded /\ ~(isSimpleCommandName(res.fileName) /\ "$" \in Range(res.fileName)))
        => (Reresolved.err = "" /\ Reresolved.val = AddedScript)

============================================================================
